---- MODULE Spec2Model ----
(***************************************************************************)
(* State-machine model of the native WAM runtimes of hak_wambook:          *)
(* the L3 byte-code interpreter (src/aima-native/src/c/l3machine.c) and    *)
(* the code emitted by the L2 JIT (linux-llvm/src/c/l2jitmachine.cpp).     *)
(*                                                                         *)
(* The data area is one array of 32-bit cells.  It is modelled sparsely:   *)
(* `data' maps the addresses that hold a non-zero word to that word, and   *)
(* every other address of [0, TOP) reads as 0, which is what nativeReset   *)
(* stores in it.  This keeps the program's region sizes at their real      *)
(* values.  An access outside [0, TOP), or a read past the end of the code *)
(* buffer, is undefined behaviour of the C program: the model then moves   *)
(* to pc = "undefined", the state in which nothing is known any more.      *)
(* A dereference or unification that never returns moves to pc = "hang".   *)
(***************************************************************************)
EXTENDS Integers, Sequences, FiniteSets, TLC

(***************************************************************************)
(* Program constants.                                                      *)
(***************************************************************************)
PUT_STRUC == 1
SET_VAR == 2
SET_VAL == 3
GET_STRUC == 4
UNIFY_VAR == 5
UNIFY_VAL == 6
PUT_VAR == 7
PUT_VAL == 8
GET_VAR == 9
GET_VAL == 10
CALL == 11
PROCEED == 12
ALLOCATE == 13
DEALLOCATE == 14

REG_ADDR == 1
STACK_ADDR == 2

REF == 1
STR == 2

REG_SIZE == 10
HEAP_SIZE == 10000
STACK_SIZE == 10000
PDL_SIZE == 1000
HEAP_BASE == REG_SIZE
STACK_BASE == REG_SIZE + HEAP_SIZE
PDL_BASE == REG_SIZE + HEAP_SIZE + STACK_SIZE
TOP == REG_SIZE + HEAP_SIZE + STACK_SIZE + PDL_SIZE

(***************************************************************************)
(* Bounds of the exploration.                                              *)
(***************************************************************************)
\* number of execute calls explored after a reset
MaxExec == 2
\* number of nodes of the terms built for unification
MaxNodes == 3
\* host calls to the JIT machine (codeAdded, execute) after a reset
MaxL2Calls == 3
\* depth of the calls of compiled functions
MaxCallDepth == 3
\* largest frame size N of the ALLOCATE N explored
MaxFrame == 2
\* iterations of the unify loop after which a call counts as not returning
UnifyFuel == 300

(***************************************************************************)
(* 32-bit words, tags and payloads.                                        *)
(***************************************************************************)
\* Words are jints, -2^31 .. 2^31 - 1.
\* a value cast to jbyte (signed char)
ToJbyte(x) == ((x + 128) % 256) - 128

\* (jbyte)((tmp & 0xFF000000) >> 24): the top byte of the word, signed
TagOf(tmp) == tmp \div 16777216

\* tmp & 0x00FFFFFF
ValOf(tmp) == tmp % 16777216

\* (tag << 24) | (a & 0xFFFFFF), for the tags REF and STR
MkCell(tag, a) == tag * 16777216 + (a % 16777216)

InRange(a) == a >= 0 /\ a < TOP

\* data[a] of the zero-initialised array
Rd(d, a) == IF a \in DOMAIN d THEN d[a] ELSE 0

\* data[a] = v
Wr(d, a, v) ==
  IF v = 0 THEN [x \in (DOMAIN d) \ {a} |-> d[x]]
  ELSE [x \in (DOMAIN d) \cup {a} |-> IF x = a THEN v ELSE d[x]]

(***************************************************************************)
(* The unification engine of the L3 interpreter.                           *)
(***************************************************************************)
\* a dereference that follows one reference only
l3derefLoop_OneLink(d, addr, derefTag, derefVal, fuel) ==
  IF derefTag # REF
    THEN [st |-> "ok", addr |-> addr, derefTag |-> derefTag, derefVal |-> derefVal]
  ELSE IF ~InRange(derefVal)
    THEN [st |-> "undefined", addr |-> derefVal, derefTag |-> derefTag, derefVal |-> derefVal]
  ELSE [st |-> "ok", addr |-> derefVal, derefTag |-> TagOf(Rd(d, derefVal)),
        derefVal |-> ValOf(Rd(d, derefVal))]

\* The loop of l3deref: addr is the cell being looked at, derefTag and
\* derefVal its tag and payload.  A chain that visits more REF cells than
\* the store holds non-zero words has revisited one, and never ends.
RECURSIVE l3derefLoop(_, _, _, _, _)
l3derefLoop(d, addr, derefTag, derefVal, fuel) ==
  IF derefTag # REF
    THEN [st |-> "ok", addr |-> addr, derefTag |-> derefTag, derefVal |-> derefVal]
  ELSE IF ~InRange(derefVal)
    THEN [st |-> "undefined", addr |-> derefVal, derefTag |-> derefTag, derefVal |-> derefVal]
  ELSE IF fuel = 0
    THEN [st |-> "hang", addr |-> addr, derefTag |-> derefTag, derefVal |-> derefVal]
  ELSE LET tmp == Rd(d, derefVal) IN
       IF derefVal = ValOf(tmp)
         THEN [st |-> "ok", addr |-> derefVal, derefTag |-> TagOf(tmp), derefVal |-> derefVal]
         ELSE l3derefLoop(d, derefVal, TagOf(tmp), ValOf(tmp), fuel - 1)

\* l3deref(a) on store d: the address reached and the published tag and value
l3deref(d, a) ==
  IF ~InRange(a)
    THEN [st |-> "undefined", addr |-> a, derefTag |-> 0, derefVal |-> 0]
    ELSE l3derefLoop(d, a, TagOf(Rd(d, a)), ValOf(Rd(d, a)), Cardinality(DOMAIN d) + 1)

\* l3uPush(val): data[--up] = val
l3uPush(u, val) ==
  IF InRange(u.up - 1)
    THEN [u EXCEPT !.data = Wr(u.data, u.up - 1, val), !.up = u.up - 1]
    ELSE [u EXCEPT !.st = "undefined"]

\* an emptiness test that is two cells early
l3uEmpty_Early(u) == u.up >= TOP - 2

\* l3uEmpty()
l3uEmpty(u) == u.up >= TOP

\* the for loop of l3unify: push v1 + i, v2 + i for i = i .. n1
RECURSIVE l3unifyPushArgs(_, _, _, _, _)
l3unifyPushArgs(u, v1, v2, i, n1) ==
  IF i > n1 \/ u.st # "ok" THEN u
  ELSE l3unifyPushArgs(l3uPush(l3uPush(u, v1 + i), v2 + i), v1, v2, i + 1, n1)

\* a bind that overwrites the other cell of the pair
l3bind_Swapped(u, d1, d2) ==
  [u EXCEPT !.data = Wr(u.data, d2, MkCell(REF, d1)),
            !.binds = Append(@, [a |-> d2, was |-> Rd(u.data, d2), to |-> d1])]

\* bind: data[d1] = (REF << 24) | (d2 & 0xFFFFFF); binds lists the cells bound,
\* with the word each held before
l3bind(u, d1, d2) ==
  [u EXCEPT !.data = Wr(u.data, d1, MkCell(REF, d2)),
            !.binds = Append(@, [a |-> d1, was |-> Rd(u.data, d1), to |-> d2])]

\* a pair of endpoints of which the second is tried first
l3unifyPair_SecondFirst(u, d1, t1, v1, d2, t2, v2) ==
  IF t2 = REF THEN l3bind(u, d2, d1)
  ELSE IF t1 = REF THEN l3bind(u, d1, d2)
  ELSE IF ~InRange(v1) \/ ~InRange(v2) THEN [u EXCEPT !.st = "undefined"]
  ELSE LET f_n1 == Rd(u.data, v1)
           f_n2 == Rd(u.data, v2)
           n1 == ToJbyte(f_n1 % 256)
           w == [u EXCEPT !.met = Append(@, [d1 |-> d1, t1 |-> t1, f_n1 |-> f_n1,
                                             d2 |-> d2, t2 |-> t2, f_n2 |-> f_n2])]
       IN IF f_n1 = f_n2 THEN l3unifyPushArgs(w, v1, v2, 1, n1)
          ELSE [w EXCEPT !.fail = TRUE]

\* a pair of endpoints of which only the first is bound when it is a variable
l3unifyPair_FirstOnly(u, d1, t1, v1, d2, t2, v2) ==
  IF t1 = REF THEN l3bind(u, d1, d2)
  ELSE IF ~InRange(v1) \/ ~InRange(v2) THEN [u EXCEPT !.st = "undefined"]
  ELSE LET f_n1 == Rd(u.data, v1)
           f_n2 == Rd(u.data, v2)
           n1 == ToJbyte(f_n1 % 256)
           w == [u EXCEPT !.met = Append(@, [d1 |-> d1, t1 |-> t1, f_n1 |-> f_n1,
                                             d2 |-> d2, t2 |-> t2, f_n2 |-> f_n2])]
       IN IF f_n1 = f_n2 THEN l3unifyPushArgs(w, v1, v2, 1, n1)
          ELSE [w EXCEPT !.fail = TRUE]

\* what l3unify does with a pair of endpoints d1 # d2
l3unifyPair(u, d1, t1, v1, d2, t2, v2) ==
  IF t1 = REF THEN l3bind(u, d1, d2)
  ELSE IF t2 = REF THEN l3bind(u, d2, d1)
  ELSE IF ~InRange(v1) \/ ~InRange(v2) THEN [u EXCEPT !.st = "undefined"]
  ELSE LET f_n1 == Rd(u.data, v1)
           f_n2 == Rd(u.data, v2)
           n1 == ToJbyte(f_n1 % 256)
           w == [u EXCEPT !.met = Append(@, [d1 |-> d1, t1 |-> t1, f_n1 |-> f_n1,
                                             d2 |-> d2, t2 |-> t2, f_n2 |-> f_n2])]
       IN IF f_n1 = f_n2 THEN l3unifyPushArgs(w, v1, v2, 1, n1)
          ELSE [w EXCEPT !.fail = TRUE]

\* one iteration of the while loop of l3unify
l3unifyStep(u) ==
  IF ~InRange(u.up) \/ ~InRange(u.up + 1) THEN [u EXCEPT !.st = "undefined"]
  ELSE LET r1 == l3deref(u.data, Rd(u.data, u.up))
           r2 == l3deref(u.data, Rd(u.data, u.up + 1))
           p == [u EXCEPT !.up = u.up + 2]
       IN IF r1.st # "ok" THEN [p EXCEPT !.st = r1.st]
          ELSE IF r2.st # "ok"
            THEN [p EXCEPT !.st = r2.st, !.derefTag = r1.derefTag, !.derefVal = r1.derefVal]
          ELSE LET q == [p EXCEPT !.derefTag = r2.derefTag, !.derefVal = r2.derefVal,
                                  !.last = [a |-> Rd(u.data, u.up + 1), addr |-> r2.addr,
                                            d |-> u.data]]
               IN IF r1.addr # r2.addr
                    THEN l3unifyPair(q, r1.addr, r1.derefTag, r1.derefVal,
                                        r2.addr, r2.derefTag, r2.derefVal)
                    ELSE q

RECURSIVE l3unifyLoop(_, _)
l3unifyLoop(u, fuel) ==
  IF u.st # "ok" \/ l3uEmpty(u) \/ u.fail THEN u
  ELSE IF fuel = 0 THEN [u EXCEPT !.st = "hang"]
  ELSE l3unifyLoop(l3unifyStep(u), fuel - 1)

\* l3unify(a1, a2) run on a machine whose store is d, PDL pointer up and
\* last-deref registers derefTag, derefVal; the call returns ~fail when st = "ok".
\* met lists the pairs of endpoints whose functor/arity words the call compared,
\* last is the last l3deref the call made: its argument, the address it returned
\* and the store it ran on.
l3unify(d, up, derefTag, derefVal, a1, a2) ==
  l3unifyLoop(
    l3uPush(l3uPush([st |-> "ok", data |-> d, up |-> up, derefTag |-> derefTag,
                     derefVal |-> derefVal, fail |-> FALSE, met |-> <<>>, binds |-> <<>>,
                     last |-> [a |-> a1, addr |-> a1, d |-> d]], a1), a2),
    UnifyFuel)

(***************************************************************************)
(* The state.  data and l3state are the machine (l3MachineState); code is  *)
(* the buffer of the execute call in progress and hp .. failed are the     *)
(* local variables of execute; pc is where the host is: "null" before the  *)
(* first reset, "idle" between calls, "run" inside execute.                *)
(* ret is what the last execute returned and nexec counts the calls since  *)
(* the reset.  tr and frames record history for the properties: tr the     *)
(* last two instructions of the call in progress with the machine before   *)
(* each, frames the environment frames pushed by ALLOCATE and not popped,  *)
(* lastDeref the most recent call of l3deref: who made it, its argument,   *)
(* the address it returned and the store it ran on.                        *)
(***************************************************************************)
VARIABLES data, l3state, code, hp, sp, writeMode, ip, cp, ep, esp, failed,
          pc, ret, nexec, tr, frames, lastDeref,
          l2state, l2fns, l2stack, l2pc, l2ret, l2calls, l2tr

l3vars == <<data, l3state, code, hp, sp, writeMode, ip, cp, ep, esp, failed,
            pc, ret, nexec, tr, frames, lastDeref>>

l2vars == <<l2state, l2fns, l2stack, l2pc, l2ret, l2calls, l2tr>>

vars == <<l3vars, l2vars>>

\* length = GetDirectBufferCapacity(codeBuf)
length == Len(code)

\* code[i], a jbyte
CodeAt(c, i) == c[i + 1]

\* *(jint*)(code + i), the four bytes in host (little-endian) order
CodeInt(c, i) ==
  (CodeAt(c, i) % 256) + 256 * (CodeAt(c, i + 1) % 256)
  + 65536 * (CodeAt(c, i + 2) % 256) + 16777216 * CodeAt(c, i + 3)

\* the running machine as one record
Cur ==
  [st |-> "ok", data |-> data, hp |-> hp, sp |-> sp, writeMode |-> writeMode,
   ip |-> ip, cp |-> cp, ep |-> ep, esp |-> esp, failed |-> failed,
   up |-> l3state.up, derefTag |-> l3state.derefTag, derefVal |-> l3state.derefVal]

\* (jint)code[ip + 2] + ((mode == STACK_ADDR) ? (ep + 3) : 0)
Operand(m, c) ==
  CodeAt(c, m.ip + 2) + (IF CodeAt(c, m.ip + 1) = STACK_ADDR THEN m.ep + 3 ELSE 0)

Undef(m) == [m EXCEPT !.st = "undefined"]

(***************************************************************************)
(* The instructions of execute, each as the function it computes on the    *)
(* running machine m with code buffer c.                                   *)
(***************************************************************************)
\* a PUT_STRUC that leaves register xi as it was
put_struc_XiKept(m, c) ==
  LET f_n == CodeInt(c, m.ip + 3)
  IN IF ~InRange(m.hp) \/ ~InRange(m.hp + 1) THEN Undef(m)
     ELSE LET d1 == Wr(m.data, m.hp, MkCell(STR, m.hp + 1))
              d2 == Wr(d1, m.hp + 1, f_n)
          IN [m EXCEPT !.data = d2, !.hp = m.hp + 2, !.ip = m.ip + 7]

put_struc(m, c) ==
  LET xi == Operand(m, c)
      f_n == CodeInt(c, m.ip + 3)
  IN IF ~InRange(m.hp) \/ ~InRange(m.hp + 1) \/ ~InRange(xi) THEN Undef(m)
     ELSE LET d1 == Wr(m.data, m.hp, MkCell(STR, m.hp + 1))
              d2 == Wr(d1, m.hp + 1, f_n)
              d3 == Wr(d2, xi, Rd(d2, m.hp))
          IN [m EXCEPT !.data = d3, !.hp = m.hp + 2, !.ip = m.ip + 7]

\* a SET_VAR whose new cell refers to the cell after it
set_var_RefToNext(m, c) ==
  LET xi == Operand(m, c)
  IN IF ~InRange(m.hp) \/ ~InRange(xi) THEN Undef(m)
     ELSE LET d1 == Wr(m.data, m.hp, MkCell(REF, m.hp + 1))
              d2 == Wr(d1, xi, Rd(d1, m.hp))
          IN [m EXCEPT !.data = d2, !.hp = m.hp + 1, !.ip = m.ip + 3]

set_var(m, c) ==
  LET xi == Operand(m, c)
  IN IF ~InRange(m.hp) \/ ~InRange(xi) THEN Undef(m)
     ELSE LET d1 == Wr(m.data, m.hp, MkCell(REF, m.hp))
              d2 == Wr(d1, xi, Rd(d1, m.hp))
          IN [m EXCEPT !.data = d2, !.hp = m.hp + 1, !.ip = m.ip + 3]

set_val(m, c) ==
  LET xi == Operand(m, c)
  IN IF ~InRange(m.hp) \/ ~InRange(xi) THEN Undef(m)
     ELSE [m EXCEPT !.data = Wr(m.data, m.hp, Rd(m.data, xi)),
                    !.hp = m.hp + 1, !.ip = m.ip + 3]

\* case REF of GET_STRUC: the structure is started at hp and addr bound to it
get_strucRef(n, addr, f_n) ==
  IF ~InRange(n.hp) \/ ~InRange(n.hp + 1) THEN Undef(n)
  ELSE LET d1 == Wr(n.data, n.hp, MkCell(STR, n.hp + 1))
           d2 == Wr(d1, n.hp + 1, f_n)
           d3 == Wr(d2, addr, MkCell(REF, n.hp))
       IN [n EXCEPT !.data = d3, !.hp = n.hp + 2, !.writeMode = TRUE, !.ip = n.ip + 7]

\* a GET_STRUC that leaves sp at the functor cell
get_strucStr_SpAtFunctor(n, a, f_n) ==
  IF ~InRange(a) THEN Undef(n)
  ELSE IF Rd(n.data, a) = f_n
    THEN [n EXCEPT !.sp = a, !.writeMode = FALSE, !.ip = n.ip + 7]
    ELSE [n EXCEPT !.failed = TRUE, !.ip = n.ip + 7]

\* a GET_STRUC that turns to read mode before it compares the functor
get_strucStr_ReadModeFirst(n, a, f_n) ==
  IF ~InRange(a) THEN Undef(n)
  ELSE IF Rd(n.data, a) = f_n
    THEN [n EXCEPT !.sp = a + 1, !.writeMode = FALSE, !.ip = n.ip + 7]
    ELSE [n EXCEPT !.failed = TRUE, !.writeMode = FALSE, !.ip = n.ip + 7]

\* case STR of GET_STRUC: the functor at a is compared with f/n
get_strucStr(n, a, f_n) ==
  IF ~InRange(a) THEN Undef(n)
  ELSE IF Rd(n.data, a) = f_n
    THEN [n EXCEPT !.sp = a + 1, !.writeMode = FALSE, !.ip = n.ip + 7]
    ELSE [n EXCEPT !.failed = TRUE, !.ip = n.ip + 7]

\* a GET_STRUC that takes every cell that is no structure for an unbound variable
get_struc_UnboundUnlessStr(m, c) ==
  LET xi == Operand(m, c)
      f_n == CodeInt(c, m.ip + 3)
      r == l3deref(m.data, xi)
      n == [m EXCEPT !.derefTag = r.derefTag, !.derefVal = r.derefVal]
  IN IF r.st # "ok" THEN [m EXCEPT !.st = r.st]
     ELSE IF r.derefTag = STR THEN get_strucStr(n, r.derefVal, f_n)
     ELSE get_strucRef(n, r.addr, f_n)

get_struc(m, c) ==
  LET xi == Operand(m, c)
      f_n == CodeInt(c, m.ip + 3)
      r == l3deref(m.data, xi)
      n == [m EXCEPT !.derefTag = r.derefTag, !.derefVal = r.derefVal]
  IN IF r.st # "ok" THEN [m EXCEPT !.st = r.st]
     ELSE IF r.derefTag = REF THEN get_strucRef(n, r.addr, f_n)
     ELSE IF r.derefTag = STR THEN get_strucStr(n, r.derefVal, f_n)
     ELSE [n EXCEPT !.ip = m.ip + 7]

\* a caller of l3unify that drops its result
AfterUnify_ResultDropped(m, a1, a2) ==
  LET u == l3unify(m.data, m.up, m.derefTag, m.derefVal, a1, a2)
  IN [m EXCEPT !.st = u.st, !.data = u.data, !.up = u.up, !.derefTag = u.derefTag,
               !.derefVal = u.derefVal]

\* a caller of l3unify that undoes the stores of a call that returned false
AfterUnify_RolledBack(m, a1, a2) ==
  LET u == l3unify(m.data, m.up, m.derefTag, m.derefVal, a1, a2)
  IN [m EXCEPT !.st = u.st, !.data = IF u.fail THEN m.data ELSE u.data, !.up = u.up,
               !.derefTag = u.derefTag, !.derefVal = u.derefVal, !.failed = u.fail]

\* the machine after l3unify(a1, a2) returned; failed = !l3unify(a1, a2)
AfterUnify(m, a1, a2) ==
  LET u == l3unify(m.data, m.up, m.derefTag, m.derefVal, a1, a2)
  IN [m EXCEPT !.st = u.st, !.data = u.data, !.up = u.up, !.derefTag = u.derefTag,
               !.derefVal = u.derefVal, !.failed = u.fail]

\* a UNIFY_VAR that leaves sp where it is in read mode
unify_var_SpKept(m, c) ==
  LET xi == Operand(m, c)
  IN IF ~m.writeMode
       THEN IF ~InRange(xi) \/ ~InRange(m.sp) THEN Undef(m)
            ELSE [m EXCEPT !.data = Wr(m.data, xi, Rd(m.data, m.sp)), !.ip = m.ip + 3]
       ELSE IF ~InRange(xi) \/ ~InRange(m.hp) THEN Undef(m)
            ELSE LET d1 == Wr(m.data, m.hp, MkCell(REF, m.hp))
                     d2 == Wr(d1, xi, Rd(d1, m.hp))
                 IN [m EXCEPT !.data = d2, !.hp = m.hp + 1, !.sp = m.sp + 1,
                              !.ip = m.ip + 3]

unify_var(m, c) ==
  LET xi == Operand(m, c)
  IN IF ~m.writeMode
       THEN IF ~InRange(xi) \/ ~InRange(m.sp) THEN Undef(m)
            ELSE [m EXCEPT !.data = Wr(m.data, xi, Rd(m.data, m.sp)),
                           !.sp = m.sp + 1, !.ip = m.ip + 3]
       ELSE IF ~InRange(xi) \/ ~InRange(m.hp) THEN Undef(m)
            ELSE LET d1 == Wr(m.data, m.hp, MkCell(REF, m.hp))
                     d2 == Wr(d1, xi, Rd(d1, m.hp))
                 IN [m EXCEPT !.data = d2, !.hp = m.hp + 1, !.sp = m.sp + 1,
                              !.ip = m.ip + 3]

unify_val(m, c) ==
  LET xi == Operand(m, c)
  IN IF ~m.writeMode
       THEN LET n == AfterUnify(m, xi, m.sp)
            IN IF n.st # "ok" THEN n
               ELSE [n EXCEPT !.sp = m.sp + 1, !.ip = m.ip + 3]
       ELSE IF ~InRange(xi) \/ ~InRange(m.hp) THEN Undef(m)
            ELSE [m EXCEPT !.data = Wr(m.data, m.hp, Rd(m.data, xi)),
                           !.hp = m.hp + 1, !.sp = m.sp + 1, !.ip = m.ip + 3]

put_var(m, c) ==
  LET xi == Operand(m, c)
      ai == CodeAt(c, m.ip + 3)
  IN IF ~InRange(m.hp) \/ ~InRange(xi) \/ ~InRange(ai) THEN Undef(m)
     ELSE LET d1 == Wr(m.data, m.hp, MkCell(REF, m.hp))
              d2 == Wr(d1, xi, Rd(d1, m.hp))
              d3 == Wr(d2, ai, Rd(d2, m.hp))
          IN [m EXCEPT !.data = d3, !.hp = m.hp + 1, !.ip = m.ip + 4]

put_val(m, c) ==
  LET xi == Operand(m, c)
      ai == CodeAt(c, m.ip + 3)
  IN IF ~InRange(xi) \/ ~InRange(ai) THEN Undef(m)
     ELSE [m EXCEPT !.data = Wr(m.data, ai, Rd(m.data, xi)), !.ip = m.ip + 4]

get_var(m, c) ==
  LET xi == Operand(m, c)
      ai == CodeAt(c, m.ip + 3)
  IN IF ~InRange(xi) \/ ~InRange(ai) THEN Undef(m)
     ELSE [m EXCEPT !.data = Wr(m.data, xi, Rd(m.data, ai)), !.ip = m.ip + 4]

get_val(m, c) ==
  LET xi == Operand(m, c)
      ai == CodeAt(c, m.ip + 3)
      n == AfterUnify(m, xi, ai)
  IN IF n.st # "ok" THEN n ELSE [n EXCEPT !.ip = m.ip + 4]

\* a CALL that does not save the continuation
call_CpNotSaved(m, c) ==
  LET p_n == CodeInt(c, m.ip + 1)
  IN IF p_n = -1 THEN [m EXCEPT !.failed = TRUE]
     ELSE [m EXCEPT !.ip = p_n]

call(m, c) ==
  LET p_n == CodeInt(c, m.ip + 1)
  IN IF p_n = -1 THEN [m EXCEPT !.failed = TRUE]
     ELSE [m EXCEPT !.cp = m.ip + 5, !.ip = p_n]

proceed(m, c) == [m EXCEPT !.ip = m.cp]

\* an ALLOCATE whose frame has a header of two words
allocate_Header2(m, c) ==
  LET n == CodeAt(c, m.ip + 1)
  IN IF ~InRange(m.esp) \/ ~InRange(m.esp + 1) \/ ~InRange(m.esp + 2) THEN Undef(m)
     ELSE LET d1 == Wr(m.data, m.esp, m.ep)
              d2 == Wr(d1, m.esp + 1, m.cp)
              d3 == Wr(d2, m.esp + 2, n)
          IN [m EXCEPT !.data = d3, !.ep = m.esp, !.esp = m.esp + n + 2,
                       !.ip = m.ip + 2]

allocate(m, c) ==
  LET n == CodeAt(c, m.ip + 1)
  IN IF ~InRange(m.esp) \/ ~InRange(m.esp + 1) \/ ~InRange(m.esp + 2) THEN Undef(m)
     ELSE LET d1 == Wr(m.data, m.esp, m.ep)
              d2 == Wr(d1, m.esp + 1, m.cp)
              d3 == Wr(d2, m.esp + 2, n)
          IN [m EXCEPT !.data = d3, !.ep = m.esp, !.esp = m.esp + n + 3,
                       !.ip = m.ip + 2]

\* a DEALLOCATE that does not pop the frame off the stack
deallocate_EspKept(m, c) ==
  IF ~InRange(m.ep) THEN Undef(m)
  ELSE LET newEp == Rd(m.data, m.ep)
       IN IF ~InRange(newEp + 1) THEN Undef([m EXCEPT !.ep = newEp])
          ELSE [m EXCEPT !.ep = newEp, !.ip = Rd(m.data, newEp + 1)]

deallocate(m, c) ==
  IF ~InRange(m.ep) THEN Undef(m)
  ELSE LET newEp == Rd(m.data, m.ep)
       IN IF ~InRange(newEp + 1) THEN Undef([m EXCEPT !.esp = m.ep, !.ep = newEp])
          ELSE [m EXCEPT !.esp = m.ep, !.ep = newEp, !.ip = Rd(m.data, newEp + 1)]

unknown(m, c) == [m EXCEPT !.failed = TRUE]

\* the bytes an instruction reads after its opcode
OperandBytes(op) ==
  CASE op \in {PUT_STRUC, GET_STRUC} -> 6
    [] op \in {SET_VAR, SET_VAL, UNIFY_VAR, UNIFY_VAL} -> 2
    [] op \in {PUT_VAR, PUT_VAL, GET_VAR, GET_VAL} -> 3
    [] op = CALL -> 4
    [] op = ALLOCATE -> 1
    [] OTHER -> 0

\* the switch of the decode loop: the instruction at m.ip runs on machine m
l3step(m, c) ==
  LET op == CodeAt(c, m.ip)
  IN CASE op = PUT_STRUC -> put_struc(m, c)
       [] op = SET_VAR -> set_var(m, c)
       [] op = SET_VAL -> set_val(m, c)
       [] op = GET_STRUC -> get_struc(m, c)
       [] op = UNIFY_VAR -> unify_var(m, c)
       [] op = UNIFY_VAL -> unify_val(m, c)
       [] op = PUT_VAR -> put_var(m, c)
       [] op = PUT_VAL -> put_val(m, c)
       [] op = GET_VAR -> get_var(m, c)
       [] op = GET_VAL -> get_val(m, c)
       [] op = CALL -> call(m, c)
       [] op = PROCEED -> proceed(m, c)
       [] op = ALLOCATE -> allocate(m, c)
       [] op = DEALLOCATE -> deallocate(m, c)
       [] OTHER -> unknown(m, c)

\* the decode loop, while (ip < length && !failed), run from machine m; a loop
\* that is still running after fuel instructions counts as not returning
RECURSIVE l3loop(_, _, _)
l3loop(m, c, fuel) ==
  IF m.st # "ok" \/ m.failed \/ m.ip >= Len(c) THEN m
  ELSE IF m.ip < 0 \/ m.ip + OperandBytes(CodeAt(c, m.ip)) >= Len(c) THEN Undef(m)
  ELSE IF fuel = 0 THEN [m EXCEPT !.st = "hang"]
  ELSE l3loop(l3step(m, c), c, fuel - 1)

(***************************************************************************)
(* The unification engines of the L0 and L1 machines.  Their heap holds    *)
(* the registers and the heap only, it is malloc'ed and not cleared, and   *)
(* the PDL is an array of its own, ustack, that grows upwards from index 0 *)
(* with up the index of its top, -1 when it is empty.                      *)
(***************************************************************************)
USTACK_SIZE == 1000

\* the cells of heap = malloc((REG_SIZE + HEAP_SIZE) * sizeof(jint)) stored to
l0CanRead(h, a) == a \in 0 .. (REG_SIZE + HEAP_SIZE - 1) /\ a \in DOMAIN h

\* the loop of deref
RECURSIVE l0derefLoop(_, _, _, _, _)
l0derefLoop(h, addr, derefTag, derefVal, fuel) ==
  IF derefTag # REF
    THEN [st |-> "ok", addr |-> addr, derefTag |-> derefTag, derefVal |-> derefVal]
  ELSE IF ~l0CanRead(h, derefVal)
    THEN [st |-> "undefined", addr |-> derefVal, derefTag |-> derefTag, derefVal |-> derefVal]
  ELSE IF fuel = 0
    THEN [st |-> "hang", addr |-> addr, derefTag |-> derefTag, derefVal |-> derefVal]
  ELSE LET tmp == h[derefVal] IN
       IF derefVal = ValOf(tmp)
         THEN [st |-> "ok", addr |-> derefVal, derefTag |-> TagOf(tmp), derefVal |-> derefVal]
         ELSE l0derefLoop(h, derefVal, TagOf(tmp), ValOf(tmp), fuel - 1)

\* deref(a) of the L0 machine on heap h
l0deref(h, a) ==
  IF ~l0CanRead(h, a)
    THEN [st |-> "undefined", addr |-> a, derefTag |-> 0, derefVal |-> 0]
    ELSE l0derefLoop(h, a, TagOf(h[a]), ValOf(h[a]), Cardinality(DOMAIN h) + 1)

\* uPush(val): ustack[++up] = val, ustack = malloc(USTACK_SIZE * sizeof(jint))
l0uPush(u, val) ==
  IF u.st # "ok" THEN u
  ELSE IF u.up + 1 \in 0 .. (USTACK_SIZE - 1)
    THEN [u EXCEPT !.ustack = [x \in (DOMAIN @) \cup {u.up + 1} |->
                                 IF x = u.up + 1 THEN val ELSE @[x]],
                   !.up = u.up + 1]
    ELSE [u EXCEPT !.st = "undefined"]

\* uEmpty()
l0uEmpty(u) == u.up = -1

\* the for loop of unify
RECURSIVE l0unifyPushArgs(_, _, _, _, _)
l0unifyPushArgs(u, v1, v2, i, n1) ==
  IF i > n1 \/ u.st # "ok" THEN u
  ELSE l0unifyPushArgs(l0uPush(l0uPush(u, v1 + i), v2 + i), v1, v2, i + 1, n1)

\* heap[d1] = (REF << 24) | (d2 & 0xFFFFFF)
l0bind(u, d1, d2) ==
  [u EXCEPT !.heap = [x \in DOMAIN @ |-> IF x = d1 THEN MkCell(REF, d2) ELSE @[x]],
            !.binds = Append(@, [a |-> d1, was |-> u.heap[d1], to |-> d2])]

\* a unify that looks at the tag of the second endpoint first
l0unifyPair_SecondFirst(u, d1, t1, v1, d2, t2, v2) ==
  IF t2 = REF THEN l0bind(u, d2, d1)
  ELSE IF t1 = REF THEN l0bind(u, d1, d2)
  ELSE IF ~l0CanRead(u.heap, v1) \/ ~l0CanRead(u.heap, v2) THEN [u EXCEPT !.st = "undefined"]
  ELSE LET f_n1 == u.heap[v1]
           f_n2 == u.heap[v2]
           n1 == ToJbyte(f_n1 % 256)
       IN IF f_n1 = f_n2 THEN l0unifyPushArgs(u, v1, v2, 1, n1)
          ELSE [u EXCEPT !.fail = TRUE]

\* what unify does with a pair of endpoints d1 # d2
l0unifyPair(u, d1, t1, v1, d2, t2, v2) ==
  IF t1 = REF THEN l0bind(u, d1, d2)
  ELSE IF t2 = REF THEN l0bind(u, d2, d1)
  ELSE IF ~l0CanRead(u.heap, v1) \/ ~l0CanRead(u.heap, v2) THEN [u EXCEPT !.st = "undefined"]
  ELSE LET f_n1 == u.heap[v1]
           f_n2 == u.heap[v2]
           n1 == ToJbyte(f_n1 % 256)
       IN IF f_n1 = f_n2 THEN l0unifyPushArgs(u, v1, v2, 1, n1)
          ELSE [u EXCEPT !.fail = TRUE]

\* one iteration of the while loop of unify: uPop() twice, each dereferenced
l0unifyStep(u) ==
  IF u.up < 1 \/ u.up \notin DOMAIN u.ustack \/ (u.up - 1) \notin DOMAIN u.ustack
    THEN [u EXCEPT !.st = "undefined"]
  ELSE LET r1 == l0deref(u.heap, u.ustack[u.up])
           r2 == l0deref(u.heap, u.ustack[u.up - 1])
           p == [u EXCEPT !.up = u.up - 2]
       IN IF r1.st # "ok" THEN [p EXCEPT !.st = r1.st]
          ELSE IF r2.st # "ok"
            THEN [p EXCEPT !.st = r2.st, !.derefTag = r1.derefTag, !.derefVal = r1.derefVal]
          ELSE LET q == [p EXCEPT !.derefTag = r2.derefTag, !.derefVal = r2.derefVal]
               IN IF r1.addr # r2.addr
                    THEN l0unifyPair(q, r1.addr, r1.derefTag, r1.derefVal,
                                        r2.addr, r2.derefTag, r2.derefVal)
                    ELSE q

RECURSIVE l0unifyLoop(_, _)
l0unifyLoop(u, fuel) ==
  IF u.st # "ok" \/ l0uEmpty(u) \/ u.fail THEN u
  ELSE IF fuel = 0 THEN [u EXCEPT !.st = "hang"]
  ELSE l0unifyLoop(l0unifyStep(u), fuel - 1)

\* unify(a1, a2) of the L0 machine on heap h with an empty ustack; the call
\* returns ~fail when st = "ok", binds lists the cells it bound
l0unify(h, derefTag, derefVal, a1, a2) ==
  l0unifyLoop(
    l0uPush(l0uPush([st |-> "ok", heap |-> h, ustack |-> [x \in {} |-> 0], up |-> -1,
                     derefTag |-> derefTag, derefVal |-> derefVal, fail |-> FALSE,
                     binds |-> <<>>], a1), a2),
    UnifyFuel)

\* l1deref and l1unify of the L1 machine: the text of deref and unify of L0
\* with the names of L1
l1deref(h, a) == l0deref(h, a)
l1unify(h, derefTag, derefVal, a1, a2) == l0unify(h, derefTag, derefVal, a1, a2)

(***************************************************************************)
(* The L2 JIT machine.  Its data area is malloc'ed and not cleared: a cell *)
(* holds a value from the first store to it, and the heap of the model is  *)
(* the function from the cells stored to so far to their words.            *)
(***************************************************************************)
\* heapBasePtr[a] can be loaded
CanRead(h, a) == InRange(a) /\ a \in DOMAIN h

\* heapBasePtr[a] = v
l2Wr(h, a, v) == [x \in (DOMAIN h) \cup {a} |-> IF x = a THEN v ELSE h[x]]

\* a store of the emitted code on the running machine j
l2Store(j, a, v) ==
  IF j.st # "ok" THEN j
  ELSE IF ~InRange(a) THEN [j EXCEPT !.st = "undefined"]
  ELSE [j EXCEPT !.heap = l2Wr(@, a, v)]

\* the loop of l2jitderef
RECURSIVE l2jitderefLoop(_, _, _, _, _)
l2jitderefLoop(h, addr, derefTag, derefVal, fuel) ==
  IF derefTag # REF THEN [st |-> "ok", addr |-> addr]
  ELSE IF ~CanRead(h, derefVal) THEN [st |-> "undefined", addr |-> derefVal]
  ELSE IF fuel = 0 THEN [st |-> "hang", addr |-> addr]
  ELSE LET tmp == h[derefVal] IN
       IF derefVal = ValOf(tmp) THEN [st |-> "ok", addr |-> derefVal]
       ELSE l2jitderefLoop(h, derefVal, TagOf(tmp), ValOf(tmp), fuel - 1)

\* l2jitderef(l2state, a): the address reached
l2jitderef(h, a) ==
  IF ~CanRead(h, a) THEN [st |-> "undefined", addr |-> a]
  ELSE l2jitderefLoop(h, a, TagOf(h[a]), ValOf(h[a]), Cardinality(DOMAIN h) + 1)

\* l2jitUPush(l2state, val)
l2jitUPush(u, val) ==
  IF u.st # "ok" THEN u
  ELSE IF InRange(u.up - 1)
    THEN [u EXCEPT !.heap = l2Wr(u.heap, u.up - 1, val), !.up = u.up - 1]
    ELSE [u EXCEPT !.st = "undefined"]

\* l2jitUEmpty(l2state)
l2jitUEmpty(u) == u.up >= TOP

RECURSIVE l2jitunifyPushArgs(_, _, _, _, _)
l2jitunifyPushArgs(u, v1, v2, i, n1) ==
  IF i > n1 \/ u.st # "ok" THEN u
  ELSE l2jitunifyPushArgs(l2jitUPush(l2jitUPush(u, v1 + i), v2 + i), v1, v2, i + 1, n1)

\* what l2jitunify does with the endpoints d1 # d2, read again from the heap
l2jitunifyPair(u, d1, d2) ==
  LET t1 == TagOf(u.heap[d1])
      v1 == ValOf(u.heap[d1])
      t2 == TagOf(u.heap[d2])
      v2 == ValOf(u.heap[d2])
  IN IF t1 = REF
       THEN [u EXCEPT !.heap = l2Wr(@, d1, MkCell(REF, d2)),
                      !.binds = Append(@, [a |-> d1, was |-> u.heap[d1], to |-> d2])]
     ELSE IF t2 = REF
       THEN [u EXCEPT !.heap = l2Wr(@, d2, MkCell(REF, d1)),
                      !.binds = Append(@, [a |-> d2, was |-> u.heap[d2], to |-> d1])]
     ELSE IF ~CanRead(u.heap, v1) \/ ~CanRead(u.heap, v2) THEN [u EXCEPT !.st = "undefined"]
     ELSE LET f_n1 == u.heap[v1]
              f_n2 == u.heap[v2]
              n1 == ToJbyte(f_n1 % 256)
          IN IF f_n1 = f_n2 THEN l2jitunifyPushArgs(u, v1, v2, 1, n1)
             ELSE [u EXCEPT !.fail = TRUE]

\* one iteration of the while loop of l2jitunify
l2jitunifyStep(u) ==
  IF ~CanRead(u.heap, u.up) \/ ~CanRead(u.heap, u.up + 1) THEN [u EXCEPT !.st = "undefined"]
  ELSE LET r1 == l2jitderef(u.heap, u.heap[u.up])
           r2 == l2jitderef(u.heap, u.heap[u.up + 1])
           p == [u EXCEPT !.up = u.up + 2]
       IN IF r1.st # "ok" THEN [p EXCEPT !.st = r1.st]
          ELSE IF r2.st # "ok" THEN [p EXCEPT !.st = r2.st]
          ELSE IF r1.addr # r2.addr THEN l2jitunifyPair(p, r1.addr, r2.addr)
          ELSE p

RECURSIVE l2jitunifyLoop(_, _)
l2jitunifyLoop(u, fuel) ==
  IF u.st # "ok" \/ l2jitUEmpty(u) \/ u.fail THEN u
  ELSE IF fuel = 0 THEN [u EXCEPT !.st = "hang"]
  ELSE l2jitunifyLoop(l2jitunifyStep(u), fuel - 1)

\* l2jitunify(l2state, a1, a2) on heap h with PDL pointer up; returns ~fail,
\* binds lists the cells it bound
l2jitunify(h, up, a1, a2) ==
  l2jitunifyLoop(
    l2jitUPush(l2jitUPush([st |-> "ok", heap |-> h, up |-> up, fail |-> FALSE,
                           binds |-> <<>>], a1), a2),
    UnifyFuel)

\* the machine after the emitted call of l2jitunify; fail is its ret 0
l2AfterUnify(j, a1, a2) ==
  LET u == l2jitunify(j.heap, j.up, a1, a2)
  IN [j EXCEPT !.st = u.st, !.heap = u.heap, !.up = u.up, !.fail = u.fail]

\* getRegOrArgOffset: xi, or ep + xi + 2 in STACK_ADDR mode, ep loaded at run time
l2RegOrArg(j, c, i) ==
  IF CodeAt(c, i + 1) = REG_ADDR THEN CodeAt(c, i + 2) ELSE j.ep + CodeAt(c, i + 2) + 2

(***************************************************************************)
(* The code codeAdded emits for the instruction at offset i of buffer c,   *)
(* as the function it computes on the running machine j.                   *)
(***************************************************************************)
l2_put_struc(j, c, i) ==
  LET xi == l2RegOrArg(j, c, i)
      f_n == CodeInt(c, i + 3)
      s == l2Store(l2Store(l2Store(j, j.hp, MkCell(STR, j.hp + 1)), j.hp + 1, f_n),
                   xi, MkCell(STR, j.hp + 1))
  IN IF s.st = "ok" THEN [s EXCEPT !.hp = j.hp + 2] ELSE s

l2_set_var(j, c, i) ==
  LET xi == l2RegOrArg(j, c, i)
      s == l2Store(l2Store(j, j.hp, MkCell(REF, j.hp)), xi, MkCell(REF, j.hp))
  IN IF s.st = "ok" THEN [s EXCEPT !.hp = j.hp + 1] ELSE s

l2_set_val(j, c, i) ==
  LET xi == l2RegOrArg(j, c, i)
  IN IF ~CanRead(j.heap, xi) THEN [j EXCEPT !.st = "undefined"]
     ELSE LET s == l2Store(j, j.hp, j.heap[xi])
          IN IF s.st = "ok" THEN [s EXCEPT !.hp = j.hp + 1] ELSE s

l2_get_struc(j, c, i) ==
  LET xi == l2RegOrArg(j, c, i)
      f_n == CodeInt(c, i + 3)
      r == l2jitderef(j.heap, xi)
  IN IF r.st # "ok" THEN [j EXCEPT !.st = r.st]
     ELSE LET heapVal == j.heap[r.addr]
              val == ValOf(heapVal)
          IN IF TagOf(heapVal) = REF
               THEN LET s == l2Store(l2Store(l2Store(j, j.hp, MkCell(STR, j.hp + 1)),
                                             j.hp + 1, f_n),
                                     r.addr, MkCell(REF, j.hp))
                    IN IF s.st = "ok" THEN [s EXCEPT !.hp = j.hp + 2, !.wm = TRUE] ELSE s
             ELSE IF ~CanRead(j.heap, val) THEN [j EXCEPT !.st = "undefined"]
             ELSE IF j.heap[val] = f_n THEN [j EXCEPT !.sp = val + 1, !.wm = FALSE]
             ELSE [j EXCEPT !.fail = TRUE]

l2_unify_var(j, c, i) ==
  LET xi == l2RegOrArg(j, c, i)
      s == IF ~j.wm
             THEN IF ~CanRead(j.heap, j.sp) THEN [j EXCEPT !.st = "undefined"]
                  ELSE l2Store(j, xi, j.heap[j.sp])
             ELSE l2Store(l2Store(j, j.hp, MkCell(REF, j.hp)), xi, MkCell(REF, j.hp))
  IN IF s.st = "ok" THEN [s EXCEPT !.hp = j.hp + 1, !.sp = j.sp + 1] ELSE s

\* the first argument the read branch of UNIFY_VAL passes to unify: i32c(xi),
\* the operand byte itself in either addressing mode
l2UnifyValArg(j, c, i) == CodeAt(c, i + 2)

l2_unify_val(j, c, i) ==
  LET xi == l2RegOrArg(j, c, i)
      s == IF ~j.wm
             THEN l2AfterUnify(j, l2UnifyValArg(j, c, i), j.sp)
             ELSE IF ~CanRead(j.heap, xi) THEN [j EXCEPT !.st = "undefined"]
                  ELSE LET w == l2Store(j, j.hp, j.heap[xi])
                       IN IF w.st = "ok" THEN [w EXCEPT !.hp = j.hp + 1] ELSE w
  IN IF s.st = "ok" /\ ~s.fail THEN [s EXCEPT !.sp = j.sp + 1] ELSE s

l2_put_var(j, c, i) ==
  LET xi == l2RegOrArg(j, c, i)
      s == l2Store(l2Store(l2Store(j, j.hp, MkCell(REF, j.hp)), xi, MkCell(REF, j.hp)),
                   CodeAt(c, i + 2), MkCell(REF, j.hp))
  IN IF s.st = "ok" THEN [s EXCEPT !.hp = j.hp + 1] ELSE s

l2_put_val(j, c, i) ==
  LET xi == l2RegOrArg(j, c, i)
      ai == CodeAt(c, i + 3)
  IN IF ~CanRead(j.heap, xi) THEN [j EXCEPT !.st = "undefined"]
     ELSE l2Store(j, ai, j.heap[xi])

l2_get_var(j, c, i) ==
  LET xi == l2RegOrArg(j, c, i)
      ai == CodeAt(c, i + 3)
  IN IF ~CanRead(j.heap, ai) THEN [j EXCEPT !.st = "undefined"]
     ELSE l2Store(j, xi, j.heap[ai])

l2_get_val(j, c, i) == l2AfterUnify(j, l2RegOrArg(j, c, i), CodeAt(c, i + 3))

l2_allocate(j, c, i) ==
  LET n == CodeAt(c, i + 1)
      s == l2Store(l2Store(j, j.esp, j.ep), j.esp + 1, n)
  IN IF s.st = "ok" THEN [s EXCEPT !.ep = j.esp, !.esp = j.esp + n + 2] ELSE s

l2_deallocate(j, c, i) ==
  IF ~CanRead(j.heap, j.ep) THEN [j EXCEPT !.st = "undefined", !.esp = j.ep]
  ELSE [j EXCEPT !.esp = j.ep, !.ep = j.heap[j.ep]]

\* what the compile loop of codeAdded makes of the code from ip up to end,
\* with the functions of fns and f_<self> in the module: "ok" when the
\* function verifies, "abort" when verifyBitCode aborts (a block without a
\* terminator at its end, or with one before its end), "undefined" when the
\* loop reads outside the buffer, takes an addressing mode that leaves the
\* operand pointer unset, or calls a function that is not in the module
RECURSIVE l2compile(_, _, _, _)
l2compile(c, i, end, known) ==
  IF i >= end THEN "abort"
  ELSE IF i < 0 \/ i >= Len(c) THEN "undefined"
  ELSE LET op == CodeAt(c, i) IN
    IF i + OperandBytes(op) >= Len(c) THEN "undefined"
    ELSE IF op \in PUT_STRUC .. GET_VAL
      THEN IF CodeAt(c, i + 1) \in {REG_ADDR, STACK_ADDR}
             THEN l2compile(c, i + OperandBytes(op) + 1, end, known)
             ELSE "undefined"
    ELSE IF op = CALL
      THEN IF CodeInt(c, i + 1) = -1 THEN "ok"
           ELSE IF CodeInt(c, i + 1) \in known THEN l2compile(c, i + 5, end, known)
           ELSE "undefined"
    ELSE IF op = ALLOCATE THEN l2compile(c, i + 2, end, known)
    ELSE IF op \in {PROCEED, DEALLOCATE}
      THEN IF i + 1 >= end THEN "ok"
           ELSE IF l2compile(c, i + 1, end, known) = "undefined" THEN "undefined"
           ELSE "abort"
    ELSE "ok"

(***************************************************************************)
(* Byte code as the host lays it out: the opcode byte, then the mode and   *)
(* slot bytes and the 4-byte immediates, as execute decodes them.          *)
(***************************************************************************)
\* the four bytes of a 32-bit word, lowest first
IntBytes(w) ==
  <<ToJbyte(w % 256), ToJbyte((w \div 256) % 256),
    ToJbyte((w \div 65536) % 256), w \div 16777216>>

\* functor/arity word: functor identifier above the 8-bit arity
FN(f, n) == f * 256 + n

FnI(op, mode, xi, f_n) == <<op, mode, xi>> \o IntBytes(f_n)
RegI(op, mode, xi) == <<op, mode, xi>>
ArgI(op, mode, xi, ai) == <<op, mode, xi, ai>>
CallI(p_n) == <<CALL>> \o IntBytes(p_n)
ProceedI == <<PROCEED>>
AllocateI(n) == <<ALLOCATE, n>>
DeallocateI == <<DEALLOCATE>>

\* the concatenation of a sequence of instructions
RECURSIVE Asm(_)
Asm(is) == IF is = <<>> THEN <<>> ELSE Head(is) \o Asm(Tail(is))

\* the instruction ins, n times over
Repeat(ins, n) == [k \in 1 .. n * Len(ins) |-> ins[((k - 1) % Len(ins)) + 1]]

(***************************************************************************)
(* The code buffers and start offsets the host passes to execute.          *)
(***************************************************************************)
a_0 == FN(1, 0)
b_0 == FN(2, 0)
f_1 == FN(3, 1)

\* build a/0 in X0, then GET_STRUC X0, b/0
MismatchProg ==
  Asm(<<FnI(PUT_STRUC, REG_ADDR, 0, a_0), FnI(GET_STRUC, REG_ADDR, 0, b_0)>>)

\* buffers holding one instruction, or two
Fragments ==
  {FnI(op, REG_ADDR, x, w) : op \in {PUT_STRUC, GET_STRUC}, x \in {1, 2}, w \in {a_0, f_1}}
  \cup {RegI(op, REG_ADDR, x) : op \in {SET_VAR, SET_VAL, UNIFY_VAR, UNIFY_VAL}, x \in {1, 2}}
  \cup {ArgI(op, REG_ADDR, 1, 2) : op \in {PUT_VAR, PUT_VAL, GET_VAR, GET_VAL}}
  \cup {ArgI(op, REG_ADDR, 2, 1) : op \in {PUT_VAL, GET_VAL}}
  \cup {RegI(SET_VAR, STACK_ADDR, 0), ArgI(PUT_VAL, STACK_ADDR, 0, 1),
        ArgI(GET_VAR, STACK_ADDR, 0, 2)}
  \cup {AllocateI(1), DeallocateI, ProceedI, CallI(-1), <<-1>>}
  \cup {Asm(<<AllocateI(n), DeallocateI>>) : n \in 0 .. MaxFrame}
  \cup {MismatchProg}

\* a heap variable is bound to a structure held in X1, then X1 is overwritten
\* with a reference to that variable
DerefCycleProg ==
  Asm(<<RegI(SET_VAR, REG_ADDR, 2), FnI(PUT_STRUC, REG_ADDR, 1, a_0),
        ArgI(GET_VAL, REG_ADDR, 1, 2), ArgI(PUT_VAL, REG_ADDR, 2, 1)>>)

\* the same, and then X1 is matched against a/0
DerefCycleGetProg == DerefCycleProg \o FnI(GET_STRUC, REG_ADDR, 1, a_0)

\* a/0 is matched against a free variable, which turns write mode on, and then
\* against the structure f/1, which fails
WriteModeFailProg ==
  Asm(<<RegI(SET_VAR, REG_ADDR, 2), FnI(PUT_STRUC, REG_ADDR, 1, f_1),
        FnI(GET_STRUC, REG_ADDR, 2, a_0), FnI(GET_STRUC, REG_ADDR, 1, a_0)>>)

\* a caller that holds a frame calls, at offset 15, a body that allocates and
\* deallocates its own frame; the caller's next goal is at offset 7
NestedFrameProg ==
  Asm(<<AllocateI(0), CallI(15), FnI(PUT_STRUC, REG_ADDR, 1, a_0), DeallocateI,
        AllocateI(0), DeallocateI>>)

\* ALLOCATE n; CALL p; DEALLOCATE with the body PROCEED at p, laid out after
\* the caller (entry 0) or before it (entry 1)
CallReturnAfter(n) == Asm(<<AllocateI(n), CallI(8), DeallocateI, ProceedI>>)
CallReturnBefore(n) == Asm(<<ProceedI, AllocateI(n), CallI(0), DeallocateI>>)
CallReturnQueries ==
  {<<CallReturnAfter(n), 0>> : n \in 0 .. MaxFrame}
  \cup {<<CallReturnBefore(n), 1>> : n \in 0 .. MaxFrame}

\* a query (entry 1) that calls the body PROCEED at 0 twice, with no frame
TwoCallsProg == Asm(<<ProceedI, CallI(0), CallI(0)>>)

\* a query (entry 7) that calls the body at 1, which calls the body PROCEED at
\* 0 and ends with PROCEED, with no frame
NestedCallProg == Asm(<<ProceedI, CallI(0), ProceedI, CallI(1)>>)

\* GET_STRUC X0, foo/0 alone
foo_0 == FN(4, 0)
GetStrucProg == FnI(GET_STRUC, REG_ADDR, 0, foo_0)

(***************************************************************************)
(* Programs that build terms.  A term is given in flattened form, as a     *)
(* sequence of nodes: node j is a variable or a structure f(args) whose    *)
(* arguments are earlier nodes, and is built into register Xj.             *)
(***************************************************************************)
g_2 == FN(6, 2)
Functors == {a_0, b_0, f_1, g_2}

\* the arity a functor/arity word carries in its low 8 bits
Arity(w) == w % 256

VarNode == [fn |-> 0, args |-> <<>>]
IsVar(node) == node.fn = 0

\* the nodes that can stand at position j
Nodes(j) ==
  {VarNode} \cup {[fn |-> w, args |-> as] : w \in {v \in Functors : Arity(v) = 0},
                                            as \in {<<>>}}
  \cup {[fn |-> w, args |-> <<x>>] : w \in {v \in Functors : Arity(v) = 1},
                                     x \in 1 .. (j - 1)}
  \cup {[fn |-> w, args |-> <<x, y>>] : w \in {v \in Functors : Arity(v) = 2},
                                        x \in 1 .. (j - 1), y \in 1 .. (j - 1)}

RECURSIVE NodeSeqs(_)
NodeSeqs(k) ==
  IF k = 0 THEN {<<>>}
  ELSE {Append(ns, node) : ns \in NodeSeqs(k - 1), node \in Nodes(k)}

\* SET_VAR Xj for a variable; PUT_STRUC Xj, f/n and a SET_VAL per argument
BuildNode(j, node) ==
  IF IsVar(node) THEN RegI(SET_VAR, REG_ADDR, j)
  ELSE FnI(PUT_STRUC, REG_ADDR, j, node.fn)
       \o Asm([i \in 1 .. Len(node.args) |-> RegI(SET_VAL, REG_ADDR, node.args[i])])

BuildProg(ns) == Asm([j \in 1 .. Len(ns) |-> BuildNode(j, ns[j])])

\* build the nodes, then GET_VAL Xi, Xj
UnifyProg(ns, i, j) == BuildProg(ns) \o ArgI(GET_VAL, REG_ADDR, i, j)

\* g(V, W) in X3 is unified with g(W, V) in X4
SwappedVarsProg ==
  UnifyProg(<<VarNode, VarNode, [fn |-> g_2, args |-> <<1, 2>>],
              [fn |-> g_2, args |-> <<2, 1>>]>>, 3, 4)

UnifyQueries ==
  {<<UnifyProg(ns, MaxNodes - 1, MaxNodes), 0>> : ns \in NodeSeqs(MaxNodes)}
  \cup {<<UnifyProg(ns, MaxNodes, MaxNodes - 1), 0>> : ns \in NodeSeqs(MaxNodes)}

\* the nodes are all structures: node j is a ground term
Ground(ns) == \A j \in 1 .. Len(ns) : ~IsVar(ns[j])

\* the sequence matching node j in Xj: GET_STRUC Xj, f/n, a UNIFY_VAR per
\* argument, then the sequences matching the arguments
RECURSIVE MatchNode(_, _)
MatchNode(ns, j) ==
  FnI(GET_STRUC, REG_ADDR, j, ns[j].fn)
  \o Asm([i \in 1 .. Len(ns[j].args) |-> RegI(UNIFY_VAR, REG_ADDR, ns[j].args[i])])
  \o Asm([i \in 1 .. Len(ns[j].args) |-> MatchNode(ns, ns[j].args[i])])

\* build the last node innermost structures first, then match it
RoundTripProg(ns) == BuildProg(ns) \o MatchNode(ns, Len(ns))

\* the same, with the second argument of the root matched by UNIFY_VAL
RoundTripValProg(ns) ==
  LET r == ns[Len(ns)]
  IN BuildProg(ns)
     \o FnI(GET_STRUC, REG_ADDR, Len(ns), r.fn)
     \o RegI(UNIFY_VAR, REG_ADDR, r.args[1]) \o RegI(UNIFY_VAL, REG_ADDR, r.args[2])
     \o MatchNode(ns, r.args[1])

GroundSeqs == {ns \in NodeSeqs(MaxNodes) : Ground(ns)}

\* the roots g(x, x), whose second argument is the first one again
TwiceSeqs ==
  {ns \in GroundSeqs : LET r == ns[Len(ns)]
                       IN Len(r.args) = 2 /\ r.args[1] = r.args[2]}

RoundTripQueries ==
  {<<RoundTripProg(ns), 0>> : ns \in GroundSeqs}
  \cup {<<RoundTripValProg(ns), 0>> : ns \in TwiceSeqs}

\* a functor of arity 128
h_128 == FN(5, 128)

\* X1 = a, X2 = b, X3 = h(a, ..., a), X4 = h(b, ..., b); GET_VAL X3, X4
WideProg ==
  FnI(PUT_STRUC, REG_ADDR, 1, a_0) \o FnI(PUT_STRUC, REG_ADDR, 2, b_0)
  \o FnI(PUT_STRUC, REG_ADDR, 3, h_128)
  \o Repeat(RegI(SET_VAL, REG_ADDR, 1), Arity(h_128))
  \o FnI(PUT_STRUC, REG_ADDR, 4, h_128)
  \o Repeat(RegI(SET_VAL, REG_ADDR, 2), Arity(h_128))
  \o ArgI(GET_VAL, REG_ADDR, 3, 4)

\* p(Z, h(Z, W), f(W)) built in X1, with h(Z, W) in X3, f(W) in X4, Z in X2
\* and W in X5
p_3 == FN(7, 3)
h_2 == FN(8, 2)
BuildPProg ==
  Asm(<<FnI(PUT_STRUC, REG_ADDR, 3, h_2), RegI(SET_VAR, REG_ADDR, 2),
        RegI(SET_VAR, REG_ADDR, 5), FnI(PUT_STRUC, REG_ADDR, 4, f_1),
        RegI(SET_VAL, REG_ADDR, 5), FnI(PUT_STRUC, REG_ADDR, 1, p_3),
        RegI(SET_VAL, REG_ADDR, 2), RegI(SET_VAL, REG_ADDR, 3),
        RegI(SET_VAL, REG_ADDR, 4)>>)

\* a run that moves every pointer of the machine: two frames are pushed, a
\* structure is matched in write mode, and g(a, a) fails to unify with g(b, b)
\* leaving a pair on the PDL
BusyProg ==
  Asm(<<AllocateI(1), AllocateI(1), RegI(SET_VAR, REG_ADDR, 2),
        FnI(GET_STRUC, REG_ADDR, 2, f_1), RegI(UNIFY_VAR, REG_ADDR, 6),
        FnI(PUT_STRUC, REG_ADDR, 1, a_0), FnI(PUT_STRUC, REG_ADDR, 3, b_0),
        FnI(PUT_STRUC, REG_ADDR, 4, g_2), RegI(SET_VAL, REG_ADDR, 1),
        RegI(SET_VAL, REG_ADDR, 1), FnI(PUT_STRUC, REG_ADDR, 5, g_2),
        RegI(SET_VAL, REG_ADDR, 3), RegI(SET_VAL, REG_ADDR, 3),
        ArgI(GET_VAL, REG_ADDR, 4, 5)>>)

\* p :- p with a frame of 127 permanent variables, the last of which is set
\* before the call: a recursion that never returns
FrameLoopProg ==
  Asm(<<AllocateI(127), RegI(SET_VAR, STACK_ADDR, 126), CallI(0)>>)

\* g(a, W) against g(b, b): W is bound to b before a meets b
BindThenFailProg ==
  Asm(<<FnI(PUT_STRUC, REG_ADDR, 1, a_0), FnI(PUT_STRUC, REG_ADDR, 2, b_0),
        RegI(SET_VAR, REG_ADDR, 3), FnI(PUT_STRUC, REG_ADDR, 4, g_2),
        RegI(SET_VAL, REG_ADDR, 1), RegI(SET_VAL, REG_ADDR, 3),
        FnI(PUT_STRUC, REG_ADDR, 5, g_2), RegI(SET_VAL, REG_ADDR, 2),
        RegI(SET_VAL, REG_ADDR, 2), ArgI(GET_VAL, REG_ADDR, 4, 5)>>)

\* a query with n permanent variables that sets the last one and returns
StackVarProg(n) ==
  Asm(<<AllocateI(n), RegI(SET_VAR, STACK_ADDR, n - 1), DeallocateI>>)

\* a query that allocates a frame and fails in the call of an unlinked predicate
UnlinkedCallProg == Asm(<<AllocateI(1), CallI(-1)>>)

\* a buffer that ends inside its SET_VAR
TruncatedProg == <<SET_VAR, REG_ADDR>>

\* the programs run as the only call after a reset
Queries ==
  {<<DerefCycleProg, 0>>, <<NestedFrameProg, 0>>, <<GetStrucProg, 0>>,
   <<MismatchProg, 0>>}
  \cup CallReturnQueries
  \cup UnifyQueries
  \cup RoundTripQueries
  \cup {<<WideProg, 0>>, <<TruncatedProg, 0>>, <<BuildPProg, 0>>,
        <<BusyProg, 0>>, <<FrameLoopProg, 0>>, <<BindThenFailProg, 0>>}
  \cup {<<StackVarProg(n), 0>> : n \in 1 .. MaxFrame}
  \cup {<<UnlinkedCallProg, 0>>, <<DerefCycleGetProg, 0>>,
        <<WriteModeFailProg, 0>>, <<TwoCallsProg, 1>>, <<NestedCallProg, 7>>,
        <<SwappedVarsProg, 0>>}

\* the queries run next, without a reset, when a query failed in its CALL
NextQueries == {<<StackVarProg(n), 0>> : n \in 1 .. MaxFrame}

\* the calls execute(buf, offset) of the host
Calls == {<<b, 0>> : b \in Fragments}

\* the addresses the host dereferences, and the stack slots
DerefArgs == {1, 2, HEAP_BASE}
StackArgs == 0 .. (MaxFrame - 1)

(***************************************************************************)
(* The code the host adds to the L2 JIT machine: a buffer, and the offset  *)
(* and length of a functor's code in it.                                   *)
(***************************************************************************)
\* ALLOCATE n immediately followed by DEALLOCATE
L2AllocDealloc(n) == Asm(<<AllocateI(n), DeallocateI>>)

\* a frame of two slots, whose first slot is set and copied to X1
L2FrameProg ==
  Asm(<<AllocateI(2), RegI(SET_VAR, STACK_ADDR, 0), ArgI(PUT_VAL, STACK_ADDR, 0, 1),
        DeallocateI>>)

\* terms are built, matched in read mode and in write mode, and unified
L2TermProg ==
  Asm(<<FnI(PUT_STRUC, REG_ADDR, 1, f_1), RegI(SET_VAR, REG_ADDR, 2),
        FnI(PUT_STRUC, REG_ADDR, 3, f_1), RegI(SET_VAL, REG_ADDR, 2),
        FnI(GET_STRUC, REG_ADDR, 1, f_1), RegI(UNIFY_VAL, REG_ADDR, 2),
        ArgI(PUT_VAR, REG_ADDR, 4, 5), ArgI(PUT_VAL, REG_ADDR, 1, 6),
        ArgI(GET_VAR, REG_ADDR, 7, 1), ArgI(GET_VAL, REG_ADDR, 1, 3),
        FnI(GET_STRUC, REG_ADDR, 4, f_1), RegI(UNIFY_VAR, REG_ADDR, 8),
        FnI(GET_STRUC, REG_ADDR, 3, f_1), RegI(UNIFY_VAR, REG_ADDR, 9),
        ProceedI>>)

\* a fresh variable is put in X1 and A2
L2PutVarProg == ArgI(PUT_VAR, REG_ADDR, 1, 2) \o ProceedI

\* f(_) is built in X1 and matched: its argument is read into X3
L2ReadArgProg ==
  Asm(<<FnI(PUT_STRUC, REG_ADDR, 1, f_1), RegI(SET_VAR, REG_ADDR, 2),
        FnI(GET_STRUC, REG_ADDR, 1, f_1), RegI(UNIFY_VAR, REG_ADDR, 3), ProceedI>>)

\* g(a, b) in X1 and g(a, a) in X2 are unified: the second arguments differ
L2PdlProg ==
  Asm(<<FnI(PUT_STRUC, REG_ADDR, 3, a_0), FnI(PUT_STRUC, REG_ADDR, 4, b_0),
        FnI(PUT_STRUC, REG_ADDR, 1, g_2), RegI(SET_VAL, REG_ADDR, 3),
        RegI(SET_VAL, REG_ADDR, 4),
        FnI(PUT_STRUC, REG_ADDR, 2, g_2), RegI(SET_VAL, REG_ADDR, 3),
        RegI(SET_VAL, REG_ADDR, 3),
        ArgI(GET_VAL, REG_ADDR, 1, 2), ProceedI>>)

\* inside a frame, with a/0 in X0: f(V) is built in X1 with V in Y0, matched
\* in read mode, and its argument is unified with Y0
L2StackUnifyProg ==
  Asm(<<AllocateI(1), FnI(PUT_STRUC, REG_ADDR, 0, a_0),
        FnI(PUT_STRUC, REG_ADDR, 1, f_1), RegI(SET_VAR, STACK_ADDR, 0),
        FnI(GET_STRUC, REG_ADDR, 1, f_1), RegI(UNIFY_VAL, STACK_ADDR, 0),
        DeallocateI>>)

\* the same inside a frame that stays
L2InnerAllocDealloc(n) == AllocateI(1) \o L2AllocDealloc(n)

L2Units ==
  {<<L2AllocDealloc(n), 0, 3>> : n \in 0 .. MaxFrame}
  \cup {<<L2InnerAllocDealloc(n), 0, 5>> : n \in 0 .. MaxFrame}
  \cup {<<CallReturnAfter(n), 8, 1>> : n \in 0 .. MaxFrame}
  \cup {<<CallReturnAfter(n), 0, 8>> : n \in 0 .. MaxFrame}
  \cup {<<CallReturnBefore(n), 0, 1>> : n \in 0 .. MaxFrame}
  \cup {<<CallReturnBefore(n), 1, 8>> : n \in 0 .. MaxFrame}
  \cup {<<L2FrameProg, 0, Len(L2FrameProg)>>, <<L2TermProg, 0, Len(L2TermProg)>>,
        <<MismatchProg \o ProceedI, 0, Len(MismatchProg) + 1>>,
        <<CallI(-1), 0, 5>>, <<(<<-1>>), 0, 1>>,
        <<ProceedI \o ProceedI, 0, 2>>, <<AllocateI(1), 0, 2>>,
        <<L2PutVarProg, 0, Len(L2PutVarProg)>>,
        <<L2ReadArgProg, 0, Len(L2ReadArgProg)>>,
        <<L2PdlProg, 0, Len(L2PdlProg)>>,
        <<L2StackUnifyProg, 0, Len(L2StackUnifyProg)>>}

\* the offsets the host asks the machine to execute
L2Offsets == {u[2] : u \in L2Units}

(***************************************************************************)
(* Initial state and actions.                                              *)
(***************************************************************************)
EmptyData == [x \in {} |-> 0]

\* no structure is being built
NoStruc == [on |-> FALSE, h |-> 0, f_n |-> 0, k |-> 0]

NoTrace ==
  [op |-> 0, pre |-> [st |-> "none"], fr |-> <<>>, op2 |-> 0, pre2 |-> [st |-> "none"],
   start |-> [st |-> "none"], ps |-> NoStruc, query |-> FALSE, before |-> {},
   end |-> [st |-> "none"], prev |-> [st |-> "none"],
   lastCall |-> -1, callers |-> <<>>, callersPre |-> <<>>]

\* l3deref was not called since the reset
NoDeref == [by |-> "none", k |-> 0, a |-> 0, addr |-> 0, d |-> EmptyData]

NoFrames == [live |-> <<>>, balanced |-> TRUE]

\* the module of the JIT holds no compiled function
NoFns == [x \in {} |-> [code |-> <<>>, end |-> 0]]

\* op is the last instruction whose emitted code ran, at offset ip of code, and
\* pre the machine before it; start is the machine and the entry of the
\* execute call in progress, added the last call of codeAdded: its buffer,
\* offset, end and the entries the module held
NoL2Trace ==
  [op |-> 0, pre |-> [st |-> "none"], op2 |-> 0, pre2 |-> [st |-> "none"],
   ip |-> 0, code |-> <<>>,
   start |-> [st |-> "none"], added |-> [st |-> "none"]]

\* the frames after instruction op ran on machine m
FramesAfter(op, m, c) ==
  IF op = ALLOCATE
    THEN [frames EXCEPT !.live = Append(@, [base |-> m.esp, ep |-> m.ep, cp |-> m.cp,
                                            n |-> CodeAt(c, m.ip + 1)])]
  ELSE IF op = DEALLOCATE
    THEN IF frames.live # <<>> /\ frames.live[Len(frames.live)].base = m.ep
           THEN [frames EXCEPT !.live = SubSeq(@, 1, Len(@) - 1)]
           ELSE [live |-> <<>>, balanced |-> FALSE]
  ELSE frames

\* the CALL instructions whose bodies have not returned, oldest first, after
\* instruction op ran on machine m: a CALL that is linked enters a body,
\* PROCEED and DEALLOCATE leave one
CallersAfter(op, m, c) ==
  IF op = CALL /\ CodeInt(c, m.ip + 1) # -1 THEN Append(tr.callers, m.ip)
  ELSE IF op \in {PROCEED, DEALLOCATE} /\ tr.callers # <<>>
    THEN SubSeq(tr.callers, 1, Len(tr.callers) - 1)
  ELSE tr.callers

\* the structure under construction after instruction op ran at heap pointer
\* h: PUT_STRUC starts one, each SET_VAR or SET_VAL that follows adds a cell
StrucAfter(op, h, f_n) ==
  IF op = PUT_STRUC THEN [on |-> TRUE, h |-> h, f_n |-> f_n, k |-> 0]
  ELSE IF op \in {SET_VAR, SET_VAL} /\ tr.ps.on /\ tr.ps.k < tr.ps.f_n % 256
    THEN [tr.ps EXCEPT !.k = @ + 1]
  ELSE NoStruc

\* the last call of l3deref after instruction op ran on machine m: GET_STRUC
\* calls l3deref(xi), l3unify calls it on every address it pops
DerefAfter(op, m, c) ==
  IF op = GET_STRUC
    THEN [by |-> "execute", k |-> 0, a |-> Operand(m, c),
          addr |-> l3deref(m.data, Operand(m, c)).addr, d |-> m.data]
  ELSE IF op = GET_VAL \/ (op = UNIFY_VAL /\ ~m.writeMode)
    THEN LET u == l3unify(m.data, m.up, m.derefTag, m.derefVal, Operand(m, c),
                          IF op = GET_VAL THEN CodeAt(c, m.ip + 3) ELSE m.sp)
         IN [by |-> "execute", k |-> 0, a |-> u.last.a, addr |-> u.last.addr, d |-> u.last.d]
  ELSE lastDeref

Init ==
  /\ data = EmptyData
  /\ l3state = [ip |-> 0, cp |-> 0, hp |-> 0, sp |-> 0, up |-> 0, ep |-> 0, esp |-> 0,
                writeMode |-> FALSE, derefTag |-> 0, derefVal |-> 0]
  /\ code = <<>>
  /\ hp = 0 /\ sp = 0 /\ writeMode = FALSE /\ ip = 0 /\ cp = 0 /\ ep = 0 /\ esp = 0
  /\ failed = FALSE
  /\ pc = "null"
  /\ ret = "none"
  /\ nexec = 0
  /\ tr = NoTrace
  /\ frames = NoFrames
  /\ lastDeref = NoDeref
  /\ l2state = [heap |-> EmptyData, hp |-> 0, sp |-> 0, up |-> 0, ep |-> 0, esp |-> 0,
                wm |-> FALSE]
  /\ l2fns = NoFns
  /\ l2stack = <<>>
  /\ l2pc = "null"
  /\ l2ret = "none"
  /\ l2calls = 0
  /\ l2tr = NoL2Trace

\* a reset that leaves the machine in write mode if it was
ResetState_WriteModeKept ==
  [ip |-> 0, cp |-> 0, hp |-> REG_SIZE, sp |-> REG_SIZE, up |-> TOP,
   ep |-> REG_SIZE + HEAP_SIZE, esp |-> REG_SIZE + HEAP_SIZE,
   writeMode |-> l3state.writeMode, derefTag |-> 0, derefVal |-> 0]

\* the fields nativeReset stores in the fresh l3MachineState
ResetState ==
  [ip |-> 0, cp |-> 0, hp |-> REG_SIZE, sp |-> REG_SIZE, up |-> TOP,
   ep |-> REG_SIZE + HEAP_SIZE, esp |-> REG_SIZE + HEAP_SIZE,
   writeMode |-> FALSE, derefTag |-> 0, derefVal |-> 0]

\* a reset that goes on with the data array it finds
ResetData_Kept(d) == d

\* the data array of nativeReset: TOP fresh cells, each set to 0
ResetData(d) == EmptyData

\* what of the machine a reset finds changed by the calls since the last one
ChangedBefore ==
  IF pc = "null" THEN {}
  ELSE {f \in DOMAIN ResetState : l3state[f] # ResetState[f]}
       \cup (IF data # EmptyData THEN {"data"} ELSE {})

\* nativeReset
nativeReset ==
  /\ pc \in {"null", "idle"}
  /\ l2pc = "null"
  /\ UNCHANGED l2vars
  /\ data' = ResetData(data)
  /\ l3state' = ResetState
  /\ code' = <<>>
  /\ hp' = 0 /\ sp' = 0 /\ writeMode' = FALSE /\ ip' = 0 /\ cp' = 0 /\ ep' = 0 /\ esp' = 0
  /\ failed' = FALSE
  /\ pc' = "idle"
  /\ ret' = "none"
  /\ nexec' = 0
  /\ tr' = [NoTrace EXCEPT !.before = ChangedBefore]
  /\ frames' = NoFrames
  /\ lastDeref' = NoDeref

\* an execute that starts with the heap pointer of a fresh machine
executeCall_HpFresh(buf, offset, calls) ==
  /\ pc = "idle"
  /\ code' = buf
  /\ hp' = REG_SIZE /\ sp' = l3state.sp /\ writeMode' = l3state.writeMode
  /\ ep' = l3state.ep /\ esp' = l3state.esp
  /\ failed' = FALSE
  /\ ip' = offset
  /\ cp' = Len(buf)
  /\ l3state' = [l3state EXCEPT !.up = TOP]
  /\ pc' = "run"
  /\ nexec' = nexec + calls
  /\ tr' = [NoTrace EXCEPT !.start = [data |-> data, l3state |-> l3state],
                           !.query = (calls > 1), !.prev = tr.end]
  /\ UNCHANGED <<data, ret, frames, lastDeref>>
  /\ UNCHANGED l2vars

\* execute(codeBuf, offset), up to the decode loop; calls counts it
executeCall(buf, offset, calls) ==
  /\ pc = "idle"
  /\ code' = buf
  /\ hp' = l3state.hp /\ sp' = l3state.sp /\ writeMode' = l3state.writeMode
  /\ ep' = l3state.ep /\ esp' = l3state.esp
  /\ failed' = FALSE
  /\ ip' = offset
  /\ cp' = Len(buf)
  /\ l3state' = [l3state EXCEPT !.up = TOP]
  /\ pc' = "run"
  /\ nexec' = nexec + calls
  /\ tr' = [NoTrace EXCEPT !.start = [data |-> data, l3state |-> l3state],
                           !.query = (calls > 1), !.prev = tr.end]
  /\ UNCHANGED <<data, ret, frames, lastDeref>>
  /\ UNCHANGED l2vars

\* the host executes a fragment
execute(buf, offset) == nexec < MaxExec /\ executeCall(buf, offset, 1)

\* the host executes a query, the only call until the next reset
query(buf, offset) == nexec = 0 /\ executeCall(buf, offset, MaxExec)

\* the first call after a reset is a query
firstQuery == pc = "idle" /\ nexec = 0 /\ \E c \in Queries : query(c[1], c[2])

\* the host executes the next query after a query that failed in a CALL, on the
\* machine as the failed query left it
nextQuery(buf, offset) ==
  /\ nexec = MaxExec /\ tr.query /\ ret = "false" /\ tr.op = CALL
  /\ lastDeref.by \in {"none", "execute"}
  /\ executeCall(buf, offset, MaxExec)

\* the decode loop is at an instruction whose bytes lie inside the buffer
Fetch(op) ==
  /\ pc = "run" /\ ~failed /\ ip < length
  /\ ip >= 0 /\ ip + OperandBytes(CodeAt(code, ip)) < length
  /\ CodeAt(code, ip) = op

\* the running machine becomes n
Apply(n) ==
  /\ UNCHANGED l2vars
  /\ IF n.st = "ok"
         THEN /\ data' = n.data
              /\ hp' = n.hp /\ sp' = n.sp /\ writeMode' = n.writeMode /\ ip' = n.ip
              /\ cp' = n.cp /\ ep' = n.ep /\ esp' = n.esp /\ failed' = n.failed
              /\ l3state' = [l3state EXCEPT !.up = n.up, !.derefTag = n.derefTag,
                                            !.derefVal = n.derefVal]
              /\ tr' = [op |-> CodeAt(code, ip), pre |-> Cur, fr |-> frames.live,
                        op2 |-> tr.op, pre2 |-> tr.pre, start |-> tr.start,
                        query |-> tr.query, before |-> {}, end |-> tr.end,
                        prev |-> tr.prev,
                        lastCall |-> IF CodeAt(code, ip) = CALL /\ ~n.failed
                                       THEN ip ELSE tr.lastCall,
                        callers |-> CallersAfter(CodeAt(code, ip), Cur, code),
                        callersPre |-> tr.callers,
                        ps |-> StrucAfter(CodeAt(code, ip), hp, CodeInt(code, ip + 3))]
              /\ frames' = FramesAfter(CodeAt(code, ip), Cur, code)
              /\ lastDeref' = DerefAfter(CodeAt(code, ip), Cur, code)
              /\ UNCHANGED <<code, pc, ret, nexec>>
         ELSE /\ pc' = n.st
              /\ UNCHANGED <<data, l3state, code, hp, sp, writeMode, ip, cp, ep, esp,
                             failed, ret, nexec, tr, frames, lastDeref>>

PutStruc == Fetch(PUT_STRUC) /\ Apply(put_struc(Cur, code))
SetVar == Fetch(SET_VAR) /\ Apply(set_var(Cur, code))
SetVal == Fetch(SET_VAL) /\ Apply(set_val(Cur, code))
GetStruc == Fetch(GET_STRUC) /\ Apply(get_struc(Cur, code))
UnifyVar == Fetch(UNIFY_VAR) /\ Apply(unify_var(Cur, code))
UnifyVal == Fetch(UNIFY_VAL) /\ Apply(unify_val(Cur, code))
PutVar == Fetch(PUT_VAR) /\ Apply(put_var(Cur, code))
PutVal == Fetch(PUT_VAL) /\ Apply(put_val(Cur, code))
GetVar == Fetch(GET_VAR) /\ Apply(get_var(Cur, code))
GetVal == Fetch(GET_VAL) /\ Apply(get_val(Cur, code))
Call == Fetch(CALL) /\ Apply(call(Cur, code))
Proceed == Fetch(PROCEED) /\ Apply(proceed(Cur, code))
Allocate == Fetch(ALLOCATE) /\ Apply(allocate(Cur, code))
Deallocate == Fetch(DEALLOCATE) /\ Apply(deallocate(Cur, code))

\* the default case of the switch
Unknown ==
  /\ pc = "run" /\ ~failed /\ ip < length /\ ip >= 0
  /\ CodeAt(code, ip) \notin 1 .. 14
  /\ Apply(unknown(Cur, code))

\* the loop reads a byte outside the code buffer
BadFetch ==
  /\ pc = "run" /\ ~failed /\ ip < length
  /\ ip < 0 \/ ip + OperandBytes(CodeAt(code, ip)) >= length
  /\ Apply(Undef(Cur))

\* the end of execute: the state is preserved and the result returned
Return ==
  /\ pc = "run"
  /\ failed \/ ip >= length
  /\ l3state' = [l3state EXCEPT !.hp = hp, !.sp = sp, !.cp = cp, !.ep = ep,
                                !.esp = esp, !.writeMode = writeMode]
  /\ ret' = IF failed THEN "false" ELSE "true"
  /\ pc' = "idle"
  /\ tr' = [tr EXCEPT !.end = [st |-> "ok", data |-> data, hp |-> hp, sp |-> sp,
                               ep |-> ep, esp |-> esp, writeMode |-> writeMode]]
  /\ UNCHANGED <<data, code, hp, sp, writeMode, ip, cp, ep, esp, failed, nexec,
                 frames, lastDeref>>
  /\ UNCHANGED l2vars

\* the host looks at the machine after a query, or before the last of its
\* calls of execute; it makes one call of deref or derefStack, and resets the
\* machine before it executes more code
Inspect ==
  /\ pc = "idle"
  /\ tr.query \/ nexec < MaxExec
  /\ lastDeref.by \in {"none", "execute"}

\* l3deref(a) called for the host, k the argument of the host's call
derefCall(by, k, a) ==
  /\ LET r == l3deref(data, a)
     IN IF r.st = "ok"
          THEN /\ l3state' = [l3state EXCEPT !.derefTag = r.derefTag,
                                             !.derefVal = r.derefVal]
               /\ lastDeref' = [by |-> by, k |-> k, a |-> a, addr |-> r.addr, d |-> data]
               /\ pc' = "idle"
          ELSE /\ pc' = r.st
               /\ UNCHANGED <<l3state, lastDeref>>
  /\ nexec' = MaxExec
  /\ UNCHANGED <<data, code, hp, sp, writeMode, ip, cp, ep, esp, failed, ret, tr, frames>>
  /\ UNCHANGED l2vars

\* deref(a)
deref(a) ==
  /\ Inspect
  /\ derefCall("deref", a, a)

\* a derefStack that takes the frame header for two cells
derefStack_Header2(a) ==
  /\ Inspect
  /\ derefCall("derefStack", a, a + l3state.ep + 2)

\* derefStack(a)
derefStack(a) ==
  /\ Inspect
  /\ derefCall("derefStack", a, a + l3state.ep + 3)

\* getDerefTag(), getDerefVal() and getHeap(addr)
getDerefTag == l3state.derefTag
getDerefVal == l3state.derefVal
getHeap(addr) == Rd(data, addr)

(***************************************************************************)
(* The actions of the L2 JIT machine.  A host drives one machine: the JIT  *)
(* machine is used where the L3 machine was never reset, and conversely.   *)
(***************************************************************************)
\* nativeReset of the JIT: a new module, state vector and data area
l2nativeReset ==
  /\ pc = "null"
  /\ l2pc \in {"null", "idle"}
  /\ l2state' = [heap |-> EmptyData, hp |-> REG_SIZE, sp |-> REG_SIZE, up |-> TOP,
                 ep |-> STACK_BASE, esp |-> STACK_BASE, wm |-> FALSE]
  /\ l2fns' = NoFns
  /\ l2stack' = <<>>
  /\ l2pc' = "idle"
  /\ l2ret' = "none"
  /\ l2calls' = 0
  /\ l2tr' = NoL2Trace
  /\ UNCHANGED l3vars

\* codeAdded(codeBuf, offset, length): the function f_<offset> is compiled
codeAdded(buf, offset, len) ==
  /\ l2pc = "idle"
  /\ l2calls < MaxL2Calls
  /\ offset \notin DOMAIN l2fns
  /\ \A o \in DOMAIN l2fns : l2fns[o].code = buf
  /\ LET r == l2compile(buf, offset, offset + len, (DOMAIN l2fns) \cup {offset})
     IN IF r = "ok"
          THEN /\ l2fns' = [o \in (DOMAIN l2fns) \cup {offset} |->
                              IF o = offset THEN [code |-> buf, end |-> offset + len]
                              ELSE l2fns[o]]
               /\ UNCHANGED l2pc
          ELSE /\ l2pc' = r
               /\ UNCHANGED l2fns
  /\ l2calls' = l2calls + 1
  /\ l2tr' = [l2tr EXCEPT !.added = [st |-> "ok", code |-> buf, offset |-> offset,
                                    end |-> offset + len, known |-> DOMAIN l2fns]]
  /\ UNCHANGED <<l2state, l2stack, l2ret>>
  /\ UNCHANGED l3vars

\* execute(codeBuf, offset) of the JIT: f_<offset> is looked up and called
l2execute(offset) ==
  /\ l2pc = "idle"
  /\ l2calls < MaxL2Calls
  /\ l2calls' = l2calls + 1
  /\ IF offset \in DOMAIN l2fns
       THEN /\ l2stack' = <<[fn |-> offset, ip |-> offset]>>
            /\ l2pc' = "run"
            /\ l2tr' = [NoL2Trace EXCEPT !.start = [st |-> "ok", fn |-> offset,
                                                     l2state |-> l2state]]
       ELSE /\ l2pc' = "undefined"
            /\ UNCHANGED <<l2stack, l2tr>>
  /\ UNCHANGED <<l2state, l2fns, l2ret>>
  /\ UNCHANGED l3vars

\* the function and the offset the compiled code is at
L2Top == l2stack[Len(l2stack)]
L2Code == l2fns[L2Top.fn].code
L2Op == CodeAt(L2Code, L2Top.ip)

\* the running JIT machine as one record
L2Cur ==
  [st |-> "ok", fail |-> FALSE, heap |-> l2state.heap, hp |-> l2state.hp,
   sp |-> l2state.sp, up |-> l2state.up, ep |-> l2state.ep, esp |-> l2state.esp,
   wm |-> l2state.wm]

L2Fetch(op) == l2pc = "run" /\ l2stack # <<>> /\ L2Op = op

\* the emitted code of the instruction made the machine n and then went on
\* ("next"), returned 1 ("ret1") or returned 0 ("ret0"); a function that is
\* returned 0 returns 0 to its caller
L2Apply(n, how) ==
  /\ UNCHANGED l3vars
  /\ UNCHANGED <<l2fns, l2calls>>
  /\ IF n.st # "ok"
       THEN /\ l2pc' = n.st
            /\ UNCHANGED <<l2state, l2stack, l2ret, l2tr>>
       ELSE /\ l2state' = [heap |-> n.heap, hp |-> n.hp, sp |-> n.sp, up |-> n.up,
                           ep |-> n.ep, esp |-> n.esp, wm |-> n.wm]
            /\ l2tr' = [l2tr EXCEPT !.op = L2Op, !.pre = l2state, !.op2 = l2tr.op,
                                    !.pre2 = l2tr.pre, !.ip = L2Top.ip,
                                    !.code = L2Code]
            /\ IF n.fail \/ how = "ret0"
                 THEN l2stack' = <<>> /\ l2pc' = "idle" /\ l2ret' = "false"
               ELSE IF how = "ret1"
                 THEN /\ l2stack' = SubSeq(l2stack, 1, Len(l2stack) - 1)
                      /\ IF Len(l2stack) = 1
                           THEN l2pc' = "idle" /\ l2ret' = "true"
                           ELSE UNCHANGED <<l2pc, l2ret>>
               ELSE /\ l2stack' = [l2stack EXCEPT ![Len(l2stack)].ip =
                                                    @ + OperandBytes(L2Op) + 1]
                    /\ UNCHANGED <<l2pc, l2ret>>

L2PutStruc == L2Fetch(PUT_STRUC) /\ L2Apply(l2_put_struc(L2Cur, L2Code, L2Top.ip), "next")
L2SetVar == L2Fetch(SET_VAR) /\ L2Apply(l2_set_var(L2Cur, L2Code, L2Top.ip), "next")
L2SetVal == L2Fetch(SET_VAL) /\ L2Apply(l2_set_val(L2Cur, L2Code, L2Top.ip), "next")
L2GetStruc == L2Fetch(GET_STRUC) /\ L2Apply(l2_get_struc(L2Cur, L2Code, L2Top.ip), "next")
L2UnifyVar == L2Fetch(UNIFY_VAR) /\ L2Apply(l2_unify_var(L2Cur, L2Code, L2Top.ip), "next")
L2UnifyVal == L2Fetch(UNIFY_VAL) /\ L2Apply(l2_unify_val(L2Cur, L2Code, L2Top.ip), "next")
L2PutVar == L2Fetch(PUT_VAR) /\ L2Apply(l2_put_var(L2Cur, L2Code, L2Top.ip), "next")
L2PutVal == L2Fetch(PUT_VAL) /\ L2Apply(l2_put_val(L2Cur, L2Code, L2Top.ip), "next")
L2GetVar == L2Fetch(GET_VAR) /\ L2Apply(l2_get_var(L2Cur, L2Code, L2Top.ip), "next")
L2GetVal == L2Fetch(GET_VAL) /\ L2Apply(l2_get_val(L2Cur, L2Code, L2Top.ip), "next")
L2Allocate == L2Fetch(ALLOCATE) /\ L2Apply(l2_allocate(L2Cur, L2Code, L2Top.ip), "next")
L2Deallocate ==
  L2Fetch(DEALLOCATE) /\ L2Apply(l2_deallocate(L2Cur, L2Code, L2Top.ip), "ret1")
L2Proceed == L2Fetch(PROCEED) /\ L2Apply(L2Cur, "ret1")

\* the emitted code of CALL: ret 0 for the target -1, else the call of
\* f_<p_n>, after which the caller goes on behind its CALL
L2Call ==
  /\ L2Fetch(CALL)
  /\ LET p_n == CodeInt(L2Code, L2Top.ip + 1)
     IN IF p_n = -1 THEN L2Apply(L2Cur, "ret0")
        ELSE /\ Len(l2stack) < MaxCallDepth
             /\ l2stack' = Append([l2stack EXCEPT ![Len(l2stack)].ip = @ + 5],
                                   [fn |-> p_n, ip |-> p_n])
             /\ l2tr' = [l2tr EXCEPT !.op = CALL, !.pre = l2state, !.op2 = l2tr.op,
                                     !.pre2 = l2tr.pre, !.ip = L2Top.ip,
                                     !.code = L2Code]
             /\ UNCHANGED <<l2state, l2fns, l2pc, l2ret, l2calls>>
             /\ UNCHANGED l3vars

\* the emitted code of the default case: ret 0
L2Unknown ==
  /\ l2pc = "run" /\ l2stack # <<>> /\ L2Op \notin 1 .. 14
  /\ L2Apply(L2Cur, "ret0")

Next ==
  \/ nativeReset
  \/ \E c \in Calls : execute(c[1], c[2])
  \/ firstQuery
  \/ \E c \in NextQueries : nextQuery(c[1], c[2])
  \/ PutStruc \/ SetVar \/ SetVal \/ GetStruc \/ UnifyVar \/ UnifyVal
  \/ PutVar \/ PutVal \/ GetVar \/ GetVal
  \/ Call \/ Proceed \/ Allocate \/ Deallocate \/ Unknown
  \/ BadFetch
  \/ Return
  \/ \E a \in DerefArgs : deref(a)
  \/ \E k \in StackArgs : derefStack(k)
  \/ l2nativeReset
  \/ \E u \in L2Units : codeAdded(u[1], u[2], u[3])
  \/ \E o \in L2Offsets : l2execute(o)
  \/ L2PutStruc \/ L2SetVar \/ L2SetVal \/ L2GetStruc \/ L2UnifyVar \/ L2UnifyVal
  \/ L2PutVar \/ L2PutVal \/ L2GetVar \/ L2GetVal
  \/ L2Call \/ L2Proceed \/ L2Allocate \/ L2Deallocate \/ L2Unknown

Spec == Init /\ [][Next]_vars

(***************************************************************************)
(* Properties.                                                             *)
(***************************************************************************)
Live == pc \in {"idle", "run"}

\* the instruction the decode loop executed last, with its operands read
\* from the machine before it
LastOp(op) == pc \in {"idle", "run"} /\ tr.op = op
LastXi == Operand(tr.pre, code)
LastAi == CodeAt(code, tr.pre.ip + 3)
LastFn == CodeInt(code, tr.pre.ip + 3)

\* C2: dereference terminates from every address of every store the
\* instructions can build: no chain of REF cells re-enters a cell it visited.
C2_DerefTerminates ==
  Live => \A a \in DOMAIN data : l3deref(data, a).st # "hang"

\* C3: DEALLOCATE resumes at the continuation saved in the frame it pops, so
\* after the DEALLOCATE of a called body the caller goes on after its CALL.
C3_DeallocateResumesAtSavedCp ==
  (LastOp(DEALLOCATE) /\ tr.fr # <<>> /\ tr.fr[Len(tr.fr)].base = tr.pre.ep)
    => ip = tr.fr[Len(tr.fr)].cp

\* C4: ALLOCATE N immediately followed by DEALLOCATE leaves ep, cp and esp as
\* they were before the ALLOCATE, in the interpreter and in the code the JIT
\* emits (whose machine has ep and esp, and no cp).
C4_AllocDeallocRestores ==
  /\ (LastOp(DEALLOCATE) /\ tr.op2 = ALLOCATE)
       => (ep = tr.pre2.ep /\ cp = tr.pre2.cp /\ esp = tr.pre2.esp)
  /\ (l2pc \in {"idle", "run"} /\ l2tr.op = DEALLOCATE /\ l2tr.op2 = ALLOCATE)
       => (l2state.ep = l2tr.pre2.ep /\ l2state.esp = l2tr.pre2.esp)

\* the JIT ran ALLOCATE MaxFrame; DEALLOCATE on a machine that held a frame
C4_Witness ==
  /\ l2pc = "idle" /\ l2ret = "true"
  /\ l2tr.op = DEALLOCATE /\ l2tr.op2 = ALLOCATE
  /\ l2tr.pre2.ep # l2tr.pre2.esp
  /\ l2tr.pre.ep = l2tr.pre2.esp
  /\ l2tr.pre.esp = l2tr.pre2.esp + MaxFrame + 2
  /\ l2state.esp = l2tr.pre2.esp /\ l2state.ep = l2tr.pre2.ep

\* C5: after reset, ALLOCATE N; CALL t; DEALLOCATE with PROCEED at t returns
\* true and leaves ep and esp as they were before the ALLOCATE.
C5_CallReturn ==
  \A q \in CallReturnQueries :
    code = q[1] =>
      /\ Live
      /\ pc = "idle" =>
           /\ ret = "true"
           /\ l3state.ep = tr.start.l3state.ep
           /\ l3state.esp = tr.start.l3state.esp

C5_Witness ==
  /\ pc = "idle" /\ code = CallReturnAfter(MaxFrame) /\ ret = "true"
  /\ tr.op = DEALLOCATE /\ tr.op2 = PROCEED
  /\ l3state.esp = STACK_BASE

\* C7 as claimed: right after reset GET_STRUC X0, foo/0 returns true, leaves X0
\* dereferencing to a STR cell addressing the foo/0 word, and sets write mode.
C7_GetStrucAfterReset_Claimed ==
  (pc = "idle" /\ code = GetStrucProg /\ nexec = MaxExec) =>
    LET r == l3deref(data, 0)
    IN /\ ret = "true"
       /\ r.st = "ok" /\ r.derefTag = STR /\ Rd(data, r.derefVal) = foo_0
       /\ l3state.writeMode = TRUE

\* C7 amended: right after reset GET_STRUC X0, foo/0 returns true and changes
\* nothing: X0 keeps the zero word, no cell is written, hp stays REG_SIZE and
\* write mode stays false.
C7_GetStrucAfterReset ==
  (pc = "idle" /\ code = GetStrucProg /\ nexec = MaxExec) =>
    /\ ret = "true"
    /\ data = EmptyData
    /\ l3state.hp = REG_SIZE
    /\ l3state.writeMode = FALSE

C7_Witness ==
  pc = "idle" /\ code = GetStrucProg /\ nexec = MaxExec /\ tr.op = GET_STRUC /\ ret = "true"

\* the store d changed into e at most at the addresses of S
SameExcept(d, e, S) == \A a \in ((DOMAIN d) \cup (DOMAIN e)) \ S : Rd(d, a) = Rd(e, a)

\* C8: GET_STRUC xi, f/n.  On a STR cell with payload a: if data[a] is the f/n
\* word, sp = a + 1, write mode is false and no cell is written; if not,
\* execute returns false.  On a free REF at d: STR->hp+1 and f/n are written
\* at hp, hp+1, cell d becomes REF->hp, hp advances by 2, write mode is true.
C8_GetStruc ==
  LastOp(GET_STRUC) =>
    LET r == l3deref(tr.pre.data, LastXi)
        h == tr.pre.hp
    IN /\ (r.derefTag = STR /\ Rd(tr.pre.data, r.derefVal) = LastFn) =>
            /\ sp = r.derefVal + 1 /\ writeMode = FALSE /\ data = tr.pre.data
            /\ ~failed /\ hp = h
       /\ (r.derefTag = STR /\ Rd(tr.pre.data, r.derefVal) # LastFn) =>
            /\ failed
            /\ pc = "idle" => ret = "false"
       /\ r.derefTag = REF =>
            /\ Rd(tr.pre.data, r.addr) = MkCell(REF, r.addr)
            /\ Rd(data, h) = MkCell(STR, h + 1)
            /\ Rd(data, h + 1) = LastFn
            /\ Rd(data, r.addr) = MkCell(REF, h)
            /\ SameExcept(data, tr.pre.data, {h, h + 1, r.addr})
            /\ hp = h + 2 /\ writeMode = TRUE /\ ~failed

C8_Witness ==
  /\ pc = "idle" /\ code = MismatchProg /\ tr.op = GET_STRUC /\ ret = "false"
  /\ l3deref(tr.pre.data, 0).derefTag = STR

\* the last instruction called l3unify(LastA1, LastA2)
LastUnify ==
  /\ pc \in {"idle", "run"}
  /\ tr.op = GET_VAL \/ (tr.op = UNIFY_VAL /\ ~tr.pre.writeMode)
LastA1 == LastXi
LastA2 == IF tr.op = GET_VAL THEN LastAi ELSE tr.pre.sp

\* that call, run again on the machine before the instruction
LastUnifyRun ==
  l3unify(tr.pre.data, tr.pre.up, tr.pre.derefTag, tr.pre.derefVal, LastA1, LastA2)

\* the last instruction was GET_STRUC on a STR cell holding another word
GetStrucMismatch ==
  /\ tr.op = GET_STRUC
  /\ LET r == l3deref(tr.pre.data, LastXi)
     IN r.derefTag = STR /\ Rd(tr.pre.data, r.derefVal) # LastFn

CallUnlinked == tr.op = CALL /\ CodeInt(code, tr.pre.ip + 1) = -1

UnknownOpcode == tr.op # 0 /\ tr.op \notin 1 .. 14

\* C6 as claimed: a terminating execute returns false exactly when the run met
\* a GET_STRUC mismatch, a unify (GET_VAL, read-mode UNIFY_VAL) that met two
\* STR endpoints with different functor/arity words, a CALL of -1, or an
\* unknown opcode; otherwise it returns true with ip >= length.
C6_FailureCauses_Claimed ==
  (pc = "idle" /\ ret # "none") =>
    /\ ret = "false" <=>
         \/ GetStrucMismatch
         \/ LastUnify /\ \E i \in DOMAIN LastUnifyRun.met :
                           LET p == LastUnifyRun.met[i]
                           IN p.t1 = STR /\ p.t2 = STR /\ p.f_n1 # p.f_n2
         \/ CallUnlinked
         \/ UnknownOpcode
    /\ ret = "true" => ip >= length

\* C6 amended: as claimed, but the unify that fails is one that met two
\* distinct endpoints, neither of them REF (STR or any other tag), whose
\* payloads address cells holding different words.
C6_FailureCauses ==
  (pc = "idle" /\ ret # "none") =>
    /\ ret = "false" <=>
         \/ GetStrucMismatch
         \/ LastUnify /\ \E i \in DOMAIN LastUnifyRun.met :
                           LET p == LastUnifyRun.met[i]
                           IN /\ p.d1 # p.d2 /\ p.t1 # REF /\ p.t2 # REF
                              /\ p.f_n1 # p.f_n2
         \/ CallUnlinked
         \/ UnknownOpcode
    /\ ret = "true" => ip >= length

C6_Witness ==
  /\ pc = "idle" /\ ret = "false" /\ LastUnify
  /\ \E i \in DOMAIN LastUnifyRun.met :
       LET p == LastUnifyRun.met[i] IN p.t1 = STR /\ p.t2 # STR /\ p.f_n1 # p.f_n2

\* C10: after unify(a1, a2) returned true, a second unify(a1, a2) on the
\* resulting store returns true and changes no register, heap or stack cell,
\* and the PDL is empty at each return.
C10_UnifyIdempotent ==
  (LastUnify /\ ~failed) =>
    LET u == l3unify(data, l3state.up, l3state.derefTag, l3state.derefVal,
                     LastA1, LastA2)
    IN /\ l3state.up = TOP
       /\ u.st = "ok" /\ ~u.fail /\ u.up = TOP
       /\ \A a \in (DOMAIN data) \cup (DOMAIN u.data) :
            a < PDL_BASE => Rd(u.data, a) = Rd(data, a)

C10_Witness ==
  /\ LastUnify /\ ~failed
  /\ data # tr.pre.data
  /\ \E a \in DOMAIN data : a < PDL_BASE /\ Rd(data, a) # Rd(tr.pre.data, a)
  /\ Len(LastUnifyRun.met) > 0

(***************************************************************************)
(* Terms read back from the store.                                         *)
(***************************************************************************)
\* the term node j of ns stands for
RECURSIVE TermOf(_, _)
TermOf(ns, j) ==
  [fn |-> ns[j].fn, args |-> [i \in 1 .. Len(ns[j].args) |-> TermOf(ns, ns[j].args[i])]]

\* the term found by dereferencing a and following STR payloads; fn is -1 for
\* a free variable, -2 for a cell that is no term and -3 where the term
\* re-enters a structure of path
RECURSIVE ReadTerm(_, _, _)
ReadTerm(d, a, path) ==
  LET r == l3deref(d, a)
  IN IF r.st # "ok" THEN [fn |-> -2, args |-> <<>>]
     ELSE IF r.derefTag = REF THEN [fn |-> -1, args |-> <<>>]
     ELSE IF r.derefTag # STR \/ ~InRange(r.derefVal) THEN [fn |-> -2, args |-> <<>>]
     ELSE IF r.derefVal \in path THEN [fn |-> -3, args |-> <<>>]
     ELSE LET w == Rd(d, r.derefVal)
          IN [fn |-> w,
              args |-> [i \in 1 .. Arity(w) |->
                          ReadTerm(d, r.derefVal + i, path \cup {r.derefVal})]]

\* the round-trip programs, each with the ground term it builds and matches
RoundTrips ==
  {[prog |-> RoundTripProg(ns), root |-> Len(ns), term |-> TermOf(ns, Len(ns)),
    val |-> FALSE] : ns \in GroundSeqs}
  \cup {[prog |-> RoundTripValProg(ns), root |-> Len(ns), term |-> TermOf(ns, Len(ns)),
         val |-> TRUE] : ns \in TwiceSeqs}

\* C9: for every ground term, building it into a register with PUT_STRUC and
\* SET_VAL, innermost structures first, and then running the matching
\* GET_STRUC / UNIFY_VAR / UNIFY_VAL sequence against that register returns
\* true, and the register still dereferences to the same ground term.
C9_RoundTrip ==
  \A q \in RoundTrips :
    code = q.prog =>
      /\ Live
      /\ ~failed
      /\ pc = "idle" =>
           /\ ret = "true"
           /\ ReadTerm(data, q.root, {}) = q.term

C9_Witness ==
  \E q \in RoundTrips :
    /\ code = q.prog /\ pc = "idle" /\ ret = "true"
    /\ q.val /\ tr.op = GET_STRUC
    /\ \E i \in DOMAIN q.term.args : Len(q.term.args[i].args) > 0
    /\ ReadTerm(data, q.root, {}) = q.term

(***************************************************************************)
(* Unifiability of the terms of a store, by congruence closure.            *)
(***************************************************************************)
\* the cell that ends the reference chain of a
End(d, a) == l3deref(d, a).addr

IsStr(d, x) == TagOf(Rd(d, x)) = STR
IsRef(d, x) == TagOf(Rd(d, x)) = REF

\* the functor/arity word of the structure cell x, and the end of its i-th argument
FunctorOf(d, x) == Rd(d, ValOf(Rd(d, x)))
ArgEnd(d, x, i) == End(d, ValOf(Rd(d, x)) + i)

\* the term rooted at a is finite: free variables and structures whose
\* arguments are finite terms
RECURSIVE FiniteTerm(_, _, _)
FiniteTerm(d, a, path) ==
  LET r == l3deref(d, a)
  IN /\ r.st = "ok"
     /\ \/ r.derefTag = REF
        \/ /\ r.derefTag = STR
           /\ r.derefVal \notin path
           /\ \A i \in 1 .. Arity(Rd(d, r.derefVal)) :
                FiniteTerm(d, r.derefVal + i, path \cup {r.derefVal})

\* the pairs of cells that E forces to be equal
Forced(d, E) ==
  E \cup {<<p[2], p[1]>> : p \in E}
    \cup UNION {{<<p[1], q[2]>> : q \in {e \in E : e[1] = p[2]}} : p \in E}
    \cup UNION {{<<ArgEnd(d, p[1], i), ArgEnd(d, p[2], i)>> :
                   i \in 1 .. Arity(FunctorOf(d, p[1]))} :
                 p \in {e \in E : /\ IsStr(d, e[1]) /\ IsStr(d, e[2])
                                   /\ FunctorOf(d, e[1]) = FunctorOf(d, e[2])}}

RECURSIVE Closure(_, _)
Closure(d, E) == LET F == Forced(d, E) IN IF F = E THEN E ELSE Closure(d, F)

\* the corresponding endpoints of the terms at a1 and a2
Corresponding(d, a1, a2) == Closure(d, {<<End(d, a1), End(d, a2)>>})

\* some pair of corresponding STR endpoints carries different words
Clash(d, a1, a2) ==
  \E p \in Corresponding(d, a1, a2) :
    IsStr(d, p[1]) /\ IsStr(d, p[2]) /\ FunctorOf(d, p[1]) # FunctorOf(d, p[2])

Unifiable(d, a1, a2) == ~Clash(d, a1, a2)

\* the terms at a and b are structurally identical; seen holds the pairs of
\* structures being compared
RECURSIVE Identical(_, _, _, _)
Identical(d, a, b, seen) ==
  LET x == End(d, a)
      y == End(d, b)
  IN \/ x = y
     \/ <<x, y>> \in seen
     \/ /\ IsStr(d, x) /\ IsStr(d, y)
        /\ FunctorOf(d, x) = FunctorOf(d, y)
        /\ \A i \in 1 .. Arity(FunctorOf(d, x)) :
             Identical(d, ValOf(Rd(d, x)) + i, ValOf(Rd(d, y)) + i,
                       seen \cup {<<x, y>>})

\* C1: when the terms rooted at a1 and a2 are finite, unify(a1, a2) returns
\* true exactly when they are unifiable, that is when no pair of corresponding
\* STR endpoints carries different functor/arity words, and after a true
\* result the terms at a1 and a2 are structurally identical.
C1_UnifyCorrect ==
  (/\ LastUnify
   /\ FiniteTerm(tr.pre.data, LastA1, {})
   /\ FiniteTerm(tr.pre.data, LastA2, {})) =>
    /\ ~failed <=> Unifiable(tr.pre.data, LastA1, LastA2)
    /\ ~failed => Identical(data, LastA1, LastA2, {})

(***************************************************************************)
(* Building structures on the heap.                                        *)
(***************************************************************************)
\* C11: PUT_STRUC xi, f/n at heap pointer h writes STR->h+1 at h and f/n at
\* h+1, copies cell h into xi and sets hp = h+2; the k-th SET_VAR or SET_VAL
\* after it fills cell h+1+k, so that after n of them hp = h+2+n.  The
\* program building p(Z, h(Z, W), f(W)) returns true with X1 holding a STR
\* cell that addresses the p/3 word followed by the cells of X2, X3 and X4,
\* and deref(1) then publishes tag STR.
C11_StructureBuilding ==
  /\ LastOp(PUT_STRUC) =>
       LET h == tr.pre.hp
       IN /\ getHeap(h) = MkCell(STR, h + 1)
          /\ getHeap(h + 1) = LastFn
          /\ getHeap(LastXi) = getHeap(h)
          /\ hp = h + 2
  /\ (Live /\ tr.ps.on) =>
       LET h == tr.ps.h
           k == tr.ps.k
       IN /\ hp = h + 2 + k
          /\ getHeap(h) = MkCell(STR, h + 1)
          /\ getHeap(h + 1) = tr.ps.f_n
          /\ k > 0 =>
               /\ tr.pre.hp = h + 1 + k
               /\ tr.op = SET_VAR => getHeap(h + 1 + k) = MkCell(REF, h + 1 + k)
               /\ tr.op = SET_VAL => getHeap(h + 1 + k) = Rd(tr.pre.data, LastXi)
  /\ (pc = "idle" /\ code = BuildPProg) =>
       LET a == ValOf(getHeap(1))
       IN /\ ret = "true"
          /\ TagOf(getHeap(1)) = STR
          /\ getHeap(a) = p_3
          /\ <<getHeap(a + 1), getHeap(a + 2), getHeap(a + 3)>>
               = <<getHeap(2), getHeap(3), getHeap(4)>>
          /\ l3state.hp = a + 4
          /\ (lastDeref.by = "deref" /\ lastDeref.a = 1) =>
               (lastDeref.addr = 1 /\ getDerefTag = STR /\ getDerefVal = a)

C11_Witness ==
  /\ pc = "idle" /\ code = BuildPProg /\ ret = "true"
  /\ tr.ps.on /\ tr.ps.k = 3 /\ tr.ps.f_n = p_3
  /\ lastDeref.by = "deref" /\ lastDeref.a = 1 /\ getDerefTag = STR

(***************************************************************************)
(* Reset.                                                                  *)
(***************************************************************************)
\* the machine was reset and nothing was called since
AfterReset == pc = "idle" /\ ret = "none" /\ lastDeref = NoDeref

\* the first execute since the reset is running
FirstExecute == pc = "run" /\ ret = "none"

\* C12 as claimed: after reset hp = sp = REG_SIZE, ep = esp = REG_SIZE +
\* HEAP_SIZE, up = TOP, write mode is false, the last-deref tag and value are
\* 0, and cp is the length of the code, as the execute that follows finds it.
C12_Reset_Claimed ==
  /\ AfterReset =>
       /\ l3state.hp = REG_SIZE /\ l3state.sp = REG_SIZE
       /\ l3state.ep = REG_SIZE + HEAP_SIZE /\ l3state.esp = REG_SIZE + HEAP_SIZE
       /\ l3state.up = TOP /\ l3state.writeMode = FALSE
       /\ getDerefTag = 0 /\ getDerefVal = 0
  /\ FirstExecute => tr.start.l3state.cp = length

\* C12 amended: after reset hp = sp = REG_SIZE, ep = esp = REG_SIZE +
\* HEAP_SIZE, up = TOP, write mode is false, the last-deref tag and value are
\* 0, and ip = cp = 0; cp is the code length from the start of each execute.
C12_Reset ==
  /\ AfterReset =>
       /\ l3state.hp = REG_SIZE /\ l3state.sp = REG_SIZE
       /\ l3state.ep = REG_SIZE + HEAP_SIZE /\ l3state.esp = REG_SIZE + HEAP_SIZE
       /\ l3state.up = TOP /\ l3state.writeMode = FALSE
       /\ getDerefTag = 0 /\ getDerefVal = 0
       /\ l3state.cp = 0 /\ l3state.ip = 0
  /\ FirstExecute => tr.start.l3state.cp = 0
  /\ (pc = "run" /\ tr.op = 0) => cp = length

\* the reset found every field but ip changed
C12_Witness ==
  /\ AfterReset
  /\ tr.before = ((DOMAIN ResetState) \ {"ip"}) \cup {"data"}

\* C13: after reset get_heap(a) = 0 for every address a of [0, TOP), whatever
\* was executed before the reset.
C13_ResetZeroesData ==
  AfterReset => \A a \in 0 .. (TOP - 1) : getHeap(a) = 0

C13_Witness ==
  /\ AfterReset /\ "data" \in tr.before
  /\ \A a \in 0 .. (TOP - 1) : getHeap(a) = 0

(***************************************************************************)
(* The pointers and the cells written.                                     *)
(***************************************************************************)
\* C14: between the calls of reset and execute, whatever the programs were,
\* REG_SIZE <= hp, REG_SIZE + HEAP_SIZE <= ep <= esp <= REG_SIZE + HEAP_SIZE +
\* STACK_SIZE and up <= TOP.
C14_PointerOrder ==
  pc = "idle" =>
    /\ REG_SIZE <= l3state.hp
    /\ REG_SIZE + HEAP_SIZE <= l3state.ep
    /\ l3state.ep <= l3state.esp
    /\ l3state.esp <= REG_SIZE + HEAP_SIZE + STACK_SIZE
    /\ l3state.up <= TOP

\* the decode loop is at an instruction whose bytes lie inside the buffer
AtInstruction ==
  /\ pc \in {"run", "undefined"} /\ ~failed /\ ip < length
  /\ ip >= 0 /\ ip + OperandBytes(CodeAt(code, ip)) < length

\* the stores data[a] = w the instruction at ip makes itself, as pairs <<a, w>>
CellWrites(m, c) ==
  LET op == CodeAt(c, m.ip)
      xi == Operand(m, c)
      ai == CodeAt(c, m.ip + 3)
      var == MkCell(REF, m.hp)
  IN CASE op = PUT_STRUC ->
            {<<m.hp, MkCell(STR, m.hp + 1)>>, <<xi, MkCell(STR, m.hp + 1)>>}
       [] op = SET_VAR -> {<<m.hp, var>>, <<xi, var>>}
       [] op = SET_VAL -> {<<m.hp, Rd(m.data, xi)>>}
       [] op = UNIFY_VAR ->
            IF m.writeMode THEN {<<m.hp, var>>, <<xi, var>>}
            ELSE {<<xi, Rd(m.data, m.sp)>>}
       [] op = UNIFY_VAL -> IF m.writeMode THEN {<<m.hp, Rd(m.data, xi)>>} ELSE {}
       [] op = PUT_VAR -> {<<m.hp, var>>, <<xi, var>>, <<ai, var>>}
       [] op = PUT_VAL -> {<<ai, Rd(m.data, xi)>>}
       [] op = GET_VAR -> {<<xi, Rd(m.data, ai)>>}
       [] OTHER -> {}

IsCell(w) == TagOf(w) \in {REF, STR}

\* C15: every REF or STR cell an instruction writes is written to an address
\* of [0, TOP) and has its payload in [0, TOP); so has every REF or STR cell
\* the binds of GET_STRUC and unify leave in the data area.
C15_WritesInRange ==
  /\ AtInstruction =>
       \A w \in CellWrites(Cur, code) :
         IsCell(w[2]) => (InRange(w[1]) /\ InRange(ValOf(w[2])))
  /\ Live => \A a \in DOMAIN data : IsCell(data[a]) => InRange(ValOf(data[a]))

(***************************************************************************)
(* Free variables.                                                         *)
(***************************************************************************)
\* the last instruction created a variable cell at the heap pointer
LastCreatesVar ==
  /\ pc \in {"idle", "run"}
  /\ tr.op \in {SET_VAR, PUT_VAR} \/ (tr.op = UNIFY_VAR /\ tr.pre.writeMode)

\* C16: the cell SET_VAR, PUT_VAR or write-mode UNIFY_VAR creates at heap
\* address a is REF with payload a; whenever a dereference returns address a
\* and publishes tag REF, the cell at a is REF with payload a; so every cell
\* that unify binds held a reference to itself.
C16_FreeVariables ==
  /\ LastCreatesVar => getHeap(tr.pre.hp) = MkCell(REF, tr.pre.hp)
  /\ (Live /\ lastDeref.by # "none" /\ getDerefTag = REF) =>
       Rd(lastDeref.d, lastDeref.addr) = MkCell(REF, lastDeref.addr)
  /\ Live => \A a \in DOMAIN data :
               LET r == l3deref(data, a)
               IN (r.st = "ok" /\ r.derefTag = REF) =>
                    getHeap(r.addr) = MkCell(REF, r.addr)
  /\ LastUnify =>
       \A i \in DOMAIN LastUnifyRun.binds :
         LET b == LastUnifyRun.binds[i] IN b.was = MkCell(REF, b.a)

\* a unify returned true after binding a variable that SET_VAR had created
C16_Witness ==
  /\ LastUnify /\ ~failed /\ LastUnifyRun.binds # <<>>
  /\ tr.op2 = SET_VAR /\ LastUnifyRun.binds[1].a = tr.pre2.hp

(***************************************************************************)
(* What execute keeps.                                                     *)
(***************************************************************************)
\* execute has loaded the machine and is before its first instruction
AtStart == pc = "run" /\ tr.op = 0

\* C17: an execute that follows another with no reset between them starts
\* with the data array, hp, sp, ep, esp and write mode the first one ended
\* with, whatever it returned; ip, cp and the PDL pointer are set afresh.
C17_StateKeptBetweenCalls ==
  (AtStart /\ tr.prev.st = "ok") =>
    /\ data = tr.prev.data
    /\ hp = tr.prev.hp /\ sp = tr.prev.sp
    /\ ep = tr.prev.ep /\ esp = tr.prev.esp
    /\ writeMode = tr.prev.writeMode
    /\ cp = length /\ l3state.up = TOP

\* the first call built a structure and returned false
C17_Witness ==
  /\ AtStart /\ tr.prev.st = "ok" /\ ret = "false"
  /\ tr.prev.hp = REG_SIZE + 2 /\ tr.prev.sp = REG_SIZE /\ hp = REG_SIZE + 2
  /\ data # EmptyData

\* the cells the last l3unify bound
LastBound == {LastUnifyRun.binds[i].a : i \in DOMAIN LastUnifyRun.binds}

RECURSIVE ChainEnd(_, _, _)
ChainEnd(d, a, fuel) ==
  IF TagOf(Rd(d, a)) = REF /\ ValOf(Rd(d, a)) # a /\ fuel > 0
    THEN ChainEnd(d, ValOf(Rd(d, a)), fuel - 1)
    ELSE a

\* C19: get_deref_tag and get_deref_val are the tag and the payload that the
\* cell at the address returned by the most recent dereference held when it
\* returned, whether the host made it (deref, deref_stack) or GET_STRUC or
\* unify did; that address is the last cell of the chain of REF cells.
C19_LastDerefPublished ==
  (Live /\ lastDeref.by # "none") =>
    LET w == Rd(lastDeref.d, lastDeref.addr)
    IN /\ getDerefTag = TagOf(w)
       /\ getDerefVal = ValOf(w)
       /\ lastDeref.addr = ChainEnd(lastDeref.d, lastDeref.a,
                                    Cardinality(DOMAIN lastDeref.d) + 1)

\* the host dereferenced a register through two references to a structure
C19_Witness ==
  /\ pc = "idle" /\ lastDeref.by = "deref" /\ getDerefTag = STR
  /\ lastDeref.addr # lastDeref.a
  /\ lastDeref.addr # ValOf(Rd(lastDeref.d, lastDeref.a))

\* the address operand slot k of mode STACK_ADDR resolves to in the frame at e
StackOperand(e, k) == Operand([ip |-> 0, ep |-> e], RegI(SET_VAR, STACK_ADDR, k))

\* a query ALLOCATE N ... DEALLOCATE has returned from its DEALLOCATE
QueryReturned ==
  /\ pc = "idle" /\ ret = "true" /\ tr.op = DEALLOCATE
  /\ CodeAt(code, tr.start.l3state.ip) = ALLOCATE

\* the stack held no frame when the query was started: ep = esp, as after a
\* reset
StartedOnEmptyStack == tr.start.l3state.ep = tr.start.l3state.esp

\* the query's frame was pushed at the esp the query was started with, so
\* this is the address of its permanent variable Yk
QueryVar(k) == tr.start.l3state.esp + 3 + k

\* C20, as claimed: deref_stack(k) dereferences ep + 3 + k, and after any
\* top-level query ALLOCATE N ... DEALLOCATE has returned that is the address
\* of the query's Yk, for k < N.
C20_DerefStack_Claimed ==
  (Live /\ lastDeref.by = "derefStack") =>
    /\ lastDeref.a = StackOperand(l3state.ep, lastDeref.k)
    /\ (QueryReturned /\ lastDeref.k < CodeAt(code, 1)) =>
         lastDeref.a = QueryVar(lastDeref.k)

\* C20: deref_stack(k) dereferences the address the operand STACK_ADDR k
\* resolves to in the current frame, ep + 3 + k; after a top-level query
\* ALLOCATE N ... DEALLOCATE that was started with no frame on the stack
\* (ep = esp) has returned, that is, for k < N, the address of the query's
\* permanent variable Yk.
C20_DerefStack ==
  (Live /\ lastDeref.by = "derefStack") =>
    /\ lastDeref.a = StackOperand(l3state.ep, lastDeref.k)
    /\ lastDeref.a = l3state.ep + 3 + lastDeref.k
    /\ (QueryReturned /\ StartedOnEmptyStack /\ lastDeref.k < CodeAt(code, 1)) =>
         lastDeref.a = QueryVar(lastDeref.k)

\* the query set its last permanent variable, and deref_stack finds it
C20_Witness ==
  /\ QueryReturned /\ StartedOnEmptyStack /\ code = StackVarProg(MaxFrame)
  /\ lastDeref.by = "derefStack" /\ lastDeref.k = MaxFrame - 1
  /\ lastDeref.a = QueryVar(MaxFrame - 1)
  /\ lastDeref.addr = HEAP_BASE /\ getDerefTag = REF

(***************************************************************************)
(* The JIT machine against the interpreter.                                *)
(***************************************************************************)
\* instructions a call of the interpreter is followed for
RunFuel == 64

\* the code from offset i up to end is put, set, get and unify instructions
\* with REG_ADDR operands, and then a PROCEED that ends it
RECURSIVE RegOnly(_, _, _)
RegOnly(c, i, end) ==
  /\ i >= 0 /\ i < end /\ end <= Len(c)
  /\ LET op == CodeAt(c, i)
     IN IF op = PROCEED THEN i + 1 = end
        ELSE /\ op \in PUT_STRUC .. GET_VAL
             /\ i + OperandBytes(op) < end
             /\ CodeAt(c, i + 1) = REG_ADDR
             /\ RegOnly(c, i + OperandBytes(op) + 1, end)

\* the interpreter's execute(c, offset) on the machine s of the JIT: the data
\* area and the pointers are those of s, the PDL is cleared, cp is the length
L3From(s, c, offset) ==
  l3loop([st |-> "ok", data |-> s.heap, hp |-> s.hp, sp |-> s.sp, writeMode |-> s.wm,
          ip |-> offset, cp |-> Len(c), ep |-> s.ep, esp |-> s.esp, failed |-> FALSE,
          up |-> TOP, derefTag |-> 0, derefVal |-> 0], c, RunFuel)

\* the execute of the JIT that returned ran an entry that is a whole buffer of
\* REG_ADDR instructions ending in PROCEED
RanRegOnly ==
  /\ l2pc = "idle" /\ l2ret \in {"true", "false"} /\ l2tr.start.st = "ok"
  /\ l2tr.start.fn = 0
  /\ l2fns[0].end = Len(l2fns[0].code)
  /\ RegOnly(l2fns[0].code, 0, l2fns[0].end)

\* C21: for a fragment of REG_ADDR operands that ends in PROCEED, the entry
\* emitted by code_added, run from a machine state, returns the same boolean
\* and leaves the same hp, sp, write mode and data cells as the interpreter
\* executing the same bytes from the same state.
C21_JitRefinesInterpreter ==
  RanRegOnly =>
    LET r == L3From(l2tr.start.l2state, l2fns[0].code, 0)
    IN r.st = "ok" =>
         /\ (l2ret = "true") = ~r.failed
         /\ l2state.hp = r.hp /\ l2state.sp = r.sp /\ l2state.wm = r.writeMode
         /\ \A a \in (DOMAIN l2state.heap) \cup (DOMAIN r.data) :
              Rd(l2state.heap, a) = Rd(r.data, a)

\* the compile loop of codeAdded, run on the code from i up to end, comes to a
\* CALL whose target is neither -1 nor the offset of an entry of known
RECURSIVE CallsMissing(_, _, _, _)
CallsMissing(c, i, end, known) ==
  /\ i >= 0 /\ i < end /\ i < Len(c)
  /\ LET op == CodeAt(c, i)
     IN /\ i + OperandBytes(op) < Len(c)
        /\ IF op \in PUT_STRUC .. GET_VAL
             THEN /\ CodeAt(c, i + 1) \in {REG_ADDR, STACK_ADDR}
                  /\ CallsMissing(c, i + OperandBytes(op) + 1, end, known)
           ELSE IF op = CALL
             THEN /\ CodeInt(c, i + 1) # -1
                  /\ \/ CodeInt(c, i + 1) \notin known
                     \/ CallsMissing(c, i + 5, end, known)
           ELSE IF op \in {ALLOCATE, PROCEED, DEALLOCATE}
             THEN CallsMissing(c, i + OperandBytes(op) + 1, end, known)
           ELSE FALSE

\* the last host call was a codeAdded
Added == l2tr.added.st = "ok"

\* C22: when code_added compiles a CALL whose target has no emitted entry it
\* builds no call: it emits an early failure return and stops compiling, as
\* for the target -1, so the call of code_added returns with the entry made.
C22_MissingCallTarget ==
  (Added /\ CallsMissing(l2tr.added.code, l2tr.added.offset, l2tr.added.end,
                         l2tr.added.known \cup {l2tr.added.offset})) =>
    /\ l2pc = "idle"
    /\ l2tr.added.offset \in DOMAIN l2fns

\* the execute of the JIT has returned
L2Returned == l2pc = "idle" /\ l2tr.start.st = "ok" /\ l2ret \in {"true", "false"}

\* the instruction at whose emitted code the entry returned 0
L2FailureCause ==
  \/ l2tr.op = GET_STRUC
  \/ l2tr.op = GET_VAL
  \/ l2tr.op = UNIFY_VAL /\ ~l2tr.pre.wm
  \/ l2tr.op = CALL /\ CodeInt(l2tr.code, l2tr.ip + 1) = -1
  \/ l2tr.op \notin 1 .. 14

\* C23: every entry emitted by code_added returns on every path, 1 at PROCEED,
\* DEALLOCATE or the normal end of its fragment and 0 on failure; no
\* instruction is emitted after a return in the same block and every block
\* ends in a return or a branch, so the module verifies after every code_added.
C23_EntryReturns ==
  /\ l2pc # "abort"
  /\ (L2Returned /\ l2ret = "true") => l2tr.op \in {PROCEED, DEALLOCATE}
  /\ (L2Returned /\ l2ret = "false") => (L2FailureCause /\ l2stack = <<>>)

(***************************************************************************)
(* Termination, the PDL and the write mode.                                *)
(***************************************************************************)
\* C24: every execute call terminates, for every program and start offset: no
\* step of a running execute is a call of l3deref or l3unify, or a loop of
\* the program, that never comes back.
C24_ExecuteTerminates == [][pc = "run" => pc' # "hang"]_vars

\* C25: no cell outside the register area [0, REG_SIZE) holds a REF whose
\* payload is a register address, so no write to a register changes the term
\* a bound heap variable dereferences to.
C25_NoRefToRegister ==
  Live =>
    \A a \in DOMAIN data :
      (a >= REG_SIZE /\ TagOf(data[a]) = REF) => ValOf(data[a]) >= REG_SIZE

\* the addresses the arguments of the last unify call dereferenced to, on the
\* machine before the call
LastE1 == l3deref(tr.pre.data, LastA1).addr
LastE2 == l3deref(tr.pre.data, LastA2).addr

\* the cell at e of store d is a free variable
FreeVar(d, e) == Rd(d, e) = MkCell(REF, e)

\* the last instruction called unify(a1, a2) on two distinct free variables
UnifiedTwoVars ==
  /\ LastUnify
  /\ l3deref(tr.pre.data, LastA1).st = "ok" /\ l3deref(tr.pre.data, LastA2).st = "ok"
  /\ LastE1 # LastE2
  /\ FreeVar(tr.pre.data, LastE1) /\ FreeVar(tr.pre.data, LastE2)

\* C26, as claimed: when a1 and a2 dereference to two distinct free variables
\* unify overwrites the cell reached from a1, which becomes REF to the
\* dereference of a2, and leaves the cell reached from a2 a free variable.
C26_BindDirection_Claimed ==
  UnifiedTwoVars =>
    /\ Rd(data, LastE1) = MkCell(REF, LastE2)
    /\ FreeVar(data, LastE2)

\* C26: when a1 and a2 dereference to two distinct free variables unify
\* overwrites the cell reached from the second argument a2, which is popped
\* first: it becomes REF to the dereference of a1, and the cell reached from
\* a1 is left a free variable; the same choice is made on every call.
C26_BindDirection ==
  UnifiedTwoVars =>
    /\ Rd(data, LastE2) = MkCell(REF, LastE1)
    /\ FreeVar(data, LastE1)
    /\ ~failed

\* GET_VAL unified two distinct free variables
C26_Witness ==
  /\ UnifiedTwoVars /\ tr.op = GET_VAL
  /\ Rd(data, LastE2) = MkCell(REF, LastE1) /\ FreeVar(data, LastE1)
  /\ LastE1 >= HEAP_BASE /\ LastE2 >= HEAP_BASE

\* the last instruction whose emitted code ran called l2jitunify
L2LastUnify ==
  /\ l2pc \in {"idle", "run"}
  /\ l2tr.op = GET_VAL \/ (l2tr.op = UNIFY_VAL /\ ~l2tr.pre.wm)

\* C27: at entry to every unify call the PDL is empty (up = TOP), in the
\* interpreter and in the JIT, for every sequence of execute calls, also when
\* the execute before returned false because a unify failed and no reset was
\* made in between.
C27_PdlEmptyAtUnify ==
  /\ LastUnify => tr.pre.up = TOP
  /\ L2LastUnify => l2tr.pre.up = TOP

\* the last instruction, run again on the machine before it with the write
\* mode inverted
LastRunInverted == l3step([tr.pre EXCEPT !.writeMode = ~@], code)

\* the tag of the cell the operand of the last instruction dereferenced to
LastXiTag == l3deref(tr.pre.data, LastXi).derefTag

\* an instruction has run in the execute call in progress, or just over
Stepped == pc \in {"idle", "run"} /\ tr.op # 0 /\ tr.pre.st = "ok"

\* C28: write mode changes only in GET_STRUC, which sets it on a REF cell and
\* clears it on a STR cell with the functor asked for; every other
\* instruction, and a GET_STRUC that fails or meets a cell that is neither
\* REF nor STR, leaves it unchanged; only UNIFY_VAR and UNIFY_VAL read it;
\* and its value at the end of one execute is the value at the start of the
\* next.
C28_WriteMode ==
  /\ (Stepped /\ tr.op # GET_STRUC) => writeMode = tr.pre.writeMode
  /\ (Stepped /\ tr.op = GET_STRUC) =>
       writeMode = (IF LastXiTag = REF THEN TRUE
                    ELSE IF LastXiTag = STR /\ ~failed THEN FALSE
                    ELSE tr.pre.writeMode)
  /\ (Stepped /\ pc = "run" /\ tr.op \notin {UNIFY_VAR, UNIFY_VAL}) =>
       [LastRunInverted EXCEPT !.writeMode = FALSE] = [Cur EXCEPT !.writeMode = FALSE]
  /\ (AtStart /\ tr.prev.st = "ok") => writeMode = tr.prev.writeMode
  /\ (pc = "idle" /\ tr.end.st = "ok") => l3state.writeMode = tr.end.writeMode

\* a GET_STRUC in write mode met a structure of another functor and failed,
\* and the machine is still in write mode
C28_Witness ==
  /\ Stepped /\ pc = "idle" /\ tr.op = GET_STRUC /\ LastXiTag = STR /\ failed
  /\ tr.pre.writeMode /\ l3state.writeMode

(***************************************************************************)
(* The emitted code of single instructions.                                *)
(***************************************************************************)
\* the emitted code of instruction op has run and the entry went on or returned
L2Stepped(op) == l2pc \in {"idle", "run"} /\ l2tr.op = op

\* the cell the operand xi of that instruction names, and its operand ai
L2LastXi == l2RegOrArg(l2tr.pre, l2tr.code, l2tr.ip)
L2LastAi == CodeAt(l2tr.code, l2tr.ip + 3)

\* cell a of the JIT's data area holds the word v
L2Holds(a, v) == CanRead(l2state.heap, a) /\ l2state.heap[a] = v

\* C29: the code the JIT emits for UNIFY_VAR follows the instruction table, as
\* the interpreter does: in read mode it copies heap[sp] into cell xi,
\* advances sp by 1 and leaves hp unchanged; in write mode it writes REF->hp
\* at hp, copies it into cell xi and advances hp and sp by 1.
C29_JitUnifyVar ==
  L2Stepped(UNIFY_VAR) =>
    IF ~l2tr.pre.wm
      THEN /\ L2Holds(L2LastXi, l2tr.pre.heap[l2tr.pre.sp])
           /\ l2state.sp = l2tr.pre.sp + 1
           /\ l2state.hp = l2tr.pre.hp
      ELSE /\ L2Holds(l2tr.pre.hp, MkCell(REF, l2tr.pre.hp))
           /\ L2Holds(L2LastXi, MkCell(REF, l2tr.pre.hp))
           /\ l2state.sp = l2tr.pre.sp + 1
           /\ l2state.hp = l2tr.pre.hp + 1

\* C30: PUT_VAR xi, ai writes the fresh free variable REF->hp into heap[hp],
\* into cell xi and into argument register ai and advances hp by 1, in the
\* interpreter and in the code the JIT emits; afterwards xi and ai
\* dereference to the same address.
C30_PutVar ==
  /\ (Stepped /\ tr.op = PUT_VAR) =>
       /\ Rd(data, tr.pre.hp) = MkCell(REF, tr.pre.hp)
       /\ Rd(data, LastXi) = MkCell(REF, tr.pre.hp)
       /\ Rd(data, LastAi) = MkCell(REF, tr.pre.hp)
       /\ hp = tr.pre.hp + 1
       /\ l3deref(data, LastXi).addr = l3deref(data, LastAi).addr
  /\ L2Stepped(PUT_VAR) =>
       /\ L2Holds(l2tr.pre.hp, MkCell(REF, l2tr.pre.hp))
       /\ L2Holds(L2LastXi, MkCell(REF, l2tr.pre.hp))
       /\ L2Holds(L2LastAi, MkCell(REF, l2tr.pre.hp))
       /\ l2state.hp = l2tr.pre.hp + 1

\* the decode loop executed op last and the host has called neither deref nor
\* derefStack since
JustRan(op) == LastOp(op) /\ lastDeref.by \notin {"deref", "derefStack"}

\* the frame size N of the ALLOCATE N executed last
LastN == CodeAt(code, tr.pre.ip + 1)

\* C31: ALLOCATE N executed with environment top e writes the header
\* data[e] = previous ep, data[e + 1] = current cp, data[e + 2] = N, sets
\* ep = e and esp = e + N + 3, advances ip by 2, and changes no other cell and
\* no other pointer or flag of the machine.
C31_Allocate ==
  JustRan(ALLOCATE) =>
    LET e == tr.pre.esp
    IN /\ Rd(data, e) = tr.pre.ep
       /\ Rd(data, e + 1) = tr.pre.cp
       /\ Rd(data, e + 2) = LastN
       /\ SameExcept(data, tr.pre.data, {e, e + 1, e + 2})
       /\ ep = e /\ esp = e + LastN + 3 /\ ip = tr.pre.ip + 2
       /\ hp = tr.pre.hp /\ sp = tr.pre.sp /\ cp = tr.pre.cp
       /\ writeMode = tr.pre.writeMode /\ failed = tr.pre.failed
       /\ l3state.up = tr.pre.up
       /\ l3state.derefTag = tr.pre.derefTag /\ l3state.derefVal = tr.pre.derefVal

\* ALLOCATE N with N > 0 ran in a body reached by CALL, on top of the frame of
\* its caller
C31_Witness ==
  /\ pc = "run" /\ tr.op = ALLOCATE /\ tr.op2 = CALL /\ LastN > 0
  /\ tr.pre.ep # tr.pre.esp /\ tr.pre.esp > STACK_BASE
  /\ tr.pre.cp = tr.pre2.ip + 5
  /\ esp = tr.pre.esp + LastN + 3

\* the target of the CALL executed last
LastTarget == CodeInt(code, tr.pre.ip + 1)

\* execute has set up its locals and has run no instruction yet
Started == pc = "run" /\ tr.op = 0

\* what C32 says of the start of execute, of CALL, of PROCEED and of a PROCEED
\* reached with no CALL executed
CallProceed ==
  /\ Started => cp = Len(code)
  /\ (JustRan(CALL) /\ LastTarget # -1) =>
       /\ cp = tr.pre.ip + 5 /\ ip = LastTarget
       /\ [Cur EXCEPT !.cp = 0, !.ip = 0] = [tr.pre EXCEPT !.cp = 0, !.ip = 0]
       /\ data = tr.pre.data
  /\ JustRan(PROCEED) =>
       /\ ip = tr.pre.cp
       /\ [Cur EXCEPT !.ip = 0] = [tr.pre EXCEPT !.ip = 0]
  /\ (LastOp(PROCEED) /\ tr.lastCall = -1) =>
       /\ ip = Len(code) /\ ~failed
       /\ pc = "idle" => ret = "true"

\* the PROCEED executed last is in a body called from the query
ProceedOfQueryBody == LastOp(PROCEED) /\ Len(tr.callersPre) = 1

\* C32 as claimed: every execute starts with cp = code length, CALL t with
\* t # -1 sets cp = ip + 5 and ip = t and changes nothing else, PROCEED sets
\* ip = cp; a PROCEED reached with no CALL executed ends the run with true, and
\* a PROCEED in a body called from the query resumes right after that CALL.
C32_CallReturn_Claimed ==
  /\ CallProceed
  /\ ProceedOfQueryBody => ip = tr.callersPre[1] + 5

\* C32 amended: the same, but a PROCEED resumes right after the CALL that was
\* executed last; in a body called from the query that is the query's CALL
\* only if the body executed no CALL of its own.
C32_CallReturn ==
  /\ CallProceed
  /\ (LastOp(PROCEED) /\ tr.lastCall # -1) => ip = tr.lastCall + 5
  /\ (ProceedOfQueryBody /\ tr.lastCall = tr.callersPre[1]) =>
       ip = tr.callersPre[1] + 5

\* the query called the body a second time, and its PROCEED returned to the
\* end of the code
C32_Witness ==
  /\ pc = "idle" /\ code = TwoCallsProg /\ ret = "true"
  /\ tr.op = PROCEED /\ tr.op2 = CALL /\ tr.pre2.ip = 6
  /\ tr.callersPre = <<6>> /\ ip = 11

\* the register operands of the instruction executed last are registers
LastInRegisters ==
  /\ (tr.op \in {PUT_STRUC, SET_VAR, SET_VAL, GET_STRUC, UNIFY_VAR, UNIFY_VAL,
                 PUT_VAR, PUT_VAL, GET_VAR, GET_VAL}
       /\ CodeAt(code, tr.pre.ip + 1) = REG_ADDR)
       => CodeAt(code, tr.pre.ip + 2) \in 0 .. (REG_SIZE - 1)
  /\ tr.op \in {PUT_VAR, PUT_VAL, GET_VAR, GET_VAL} => LastAi \in 0 .. (REG_SIZE - 1)

\* the heap cells the instruction executed last changed
HeapChanged ==
  {a \in (DOMAIN data) \cup (DOMAIN tr.pre.data) :
     a >= REG_SIZE /\ a < tr.pre.hp /\ Rd(data, a) # Rd(tr.pre.data, a)}

LastUnifySwapped ==
  l3unify(tr.pre.data, tr.pre.up, tr.pre.derefTag, tr.pre.derefVal, LastA2, LastA1)

\* the term at a in store d and the term at b in store e are structurally
\* equal: the same structure of functor/arity words, with a free variable of
\* d standing where e has the free variable it is linked to in both stores;
\* seen holds the pairs of structures being compared
RECURSIVE SameTerm(_, _, _, _, _)
SameTerm(d, e, a, b, seen) ==
  LET r == l3deref(d, a)
      q == l3deref(e, b)
  IN /\ r.st = "ok" /\ q.st = "ok"
     /\ r.derefTag = q.derefTag
     /\ IF r.derefTag = REF
          THEN l3deref(e, r.addr).addr = q.addr /\ l3deref(d, q.addr).addr = r.addr
        ELSE IF r.derefTag # STR THEN r.derefVal = q.derefVal
        ELSE \/ <<r.derefVal, q.derefVal>> \in seen
             \/ /\ InRange(r.derefVal) /\ InRange(q.derefVal)
                /\ Rd(d, r.derefVal) = Rd(e, q.derefVal)
                /\ \A i \in 1 .. Arity(Rd(d, r.derefVal)) :
                     SameTerm(d, e, r.derefVal + i, q.derefVal + i,
                              seen \cup {<<r.derefVal, q.derefVal>>})

\* C34: from the same store with finite terms at a1 and a2, unify(a1, a2) and
\* unify(a2, a1) return the same boolean, and after success every address of
\* the registers, the heap and the stack dereferences to structurally equal
\* terms in the two resulting stores.
C34_UnifySymmetric ==
  (/\ LastUnify
   /\ FiniteTerm(tr.pre.data, LastA1, {})
   /\ FiniteTerm(tr.pre.data, LastA2, {})) =>
    LET u == LastUnifyRun
        w == LastUnifySwapped
    IN /\ u.st = "ok" /\ w.st = "ok"
       /\ failed = u.fail /\ u.fail = w.fail
       /\ ~u.fail =>
            \A a \in (DOMAIN u.data) \cup (DOMAIN w.data) :
              a < PDL_BASE => SameTerm(u.data, w.data, a, a, {})

\* g(V, W) and g(W, V) unified: the two orders link V and W in opposite
\* directions
C34_Witness ==
  /\ pc = "idle" /\ code = SwappedVarsProg /\ ret = "true" /\ tr.op = GET_VAL
  /\ \E a \in DOMAIN data :
       /\ a < PDL_BASE
       /\ Rd(LastUnifyRun.data, a) # Rd(LastUnifySwapped.data, a)

\* the first iteration of the loop of the last call of l3unify: the pair
\* (a1, a2) is pushed, popped and dereferenced, and its endpoints are treated
FirstIteration ==
  l3unifyStep(
    l3uPush(l3uPush([st |-> "ok", data |-> tr.pre.data, up |-> tr.pre.up,
                     derefTag |-> tr.pre.derefTag, derefVal |-> tr.pre.derefVal,
                     fail |-> FALSE, met |-> <<>>, binds |-> <<>>,
                     last |-> [a |-> LastA1, addr |-> LastA1, d |-> tr.pre.data]],
                    LastA1), LastA2))

\* the last call of l3unify was made on two distinct STR cells that carry the
\* same functor/arity word
SameWordStructures ==
  LET r1 == l3deref(tr.pre.data, LastA1)
      r2 == l3deref(tr.pre.data, LastA2)
  IN /\ LastUnify
     /\ r1.st = "ok" /\ r2.st = "ok" /\ r1.addr # r2.addr
     /\ r1.derefTag = STR /\ r2.derefTag = STR
     /\ InRange(r1.derefVal) /\ InRange(r2.derefVal)
     /\ Rd(tr.pre.data, r1.derefVal) = Rd(tr.pre.data, r2.derefVal)

\* the functor/arity word of those structures
LastWord == Rd(tr.pre.data, l3deref(tr.pre.data, LastA1).derefVal)

\* some pair of corresponding arguments of those structures are STR cells
\* that carry different functor/arity words
ArgumentMismatch ==
  \E i \in 1 .. Arity(LastWord) :
    LET x == l3deref(tr.pre.data, l3deref(tr.pre.data, LastA1).derefVal + i)
        y == l3deref(tr.pre.data, l3deref(tr.pre.data, LastA2).derefVal + i)
    IN /\ x.st = "ok" /\ y.st = "ok"
       /\ x.derefTag = STR /\ y.derefTag = STR
       /\ Rd(tr.pre.data, x.derefVal) # Rd(tr.pre.data, y.derefVal)

\* C35: unify of two distinct STR cells carrying the same functor/arity word
\* of arity n in 0 .. 255 pushes all n argument pairs, and a mismatch between
\* corresponding arguments makes unify return false, also for n >= 128.
C35_AllArgumentsCompared ==
  SameWordStructures =>
    /\ FirstIteration.st = "ok"
    /\ FirstIteration.up = tr.pre.up - 2 * Arity(LastWord)
    /\ ArgumentMismatch => failed

\* the instructions that take a register or stack operand
OperandOps ==
  {PUT_STRUC, SET_VAR, SET_VAL, GET_STRUC, UNIFY_VAR, UNIFY_VAL, PUT_VAR, PUT_VAL,
   GET_VAR, GET_VAL}

\* the interpreter ran an instruction with operand Yk, k below the size N of
\* the frame at ep, and every DEALLOCATE so far popped a frame ALLOCATE pushed
L3StackAccess ==
  /\ Stepped /\ tr.op \in OperandOps
  /\ CodeAt(code, tr.pre.ip + 1) = STACK_ADDR
  /\ frames.balanced /\ tr.fr # <<>>
  /\ tr.fr[Len(tr.fr)].base = tr.pre.ep
  /\ tr.pre.esp = tr.pre.ep + tr.fr[Len(tr.fr)].n + 3
  /\ CodeAt(code, tr.pre.ip + 2) \in 0 .. (tr.fr[Len(tr.fr)].n - 1)

\* the same of the code the JIT emitted: the frame at ep holds its size N in
\* its second word and ends at esp
L2StackAccess ==
  /\ l2pc \in {"idle", "run"} /\ l2tr.op \in OperandOps
  /\ CodeAt(l2tr.code, l2tr.ip + 1) = STACK_ADDR
  /\ CanRead(l2tr.pre.heap, l2tr.pre.ep + 1)
  /\ l2tr.pre.esp = l2tr.pre.ep + l2tr.pre.heap[l2tr.pre.ep + 1] + 2
  /\ CodeAt(l2tr.code, l2tr.ip + 2) \in 0 .. (l2tr.pre.heap[l2tr.pre.ep + 1] - 1)

\* the address the operand of the last instruction of the JIT resolved to
L2LastOperand ==
  IF l2tr.op = UNIFY_VAL /\ ~l2tr.pre.wm
    THEN l2UnifyValArg(l2tr.pre, l2tr.code, l2tr.ip)
    ELSE l2RegOrArg(l2tr.pre, l2tr.code, l2tr.ip)

\* in the interpreter a STACK_ADDR operand Yk with k < N resolves to an
\* address of [ep + 3, esp), past the three header words of the frame
L3StackOperands ==
  L3StackAccess => (LastXi >= tr.pre.ep + 3 /\ LastXi < tr.pre.esp)

\* C36: within each variant the STACK_ADDR offset matches the frame header, 3
\* words in the interpreter and 2 in the JIT: under balanced ALLOCATE and
\* DEALLOCATE and k < N every STACK_ADDR operand of every instruction resolves
\* to an address of [ep + header, esp), never to a header word nor to a cell
\* outside the frame.
C36_StackOperands ==
  /\ L3StackOperands
  /\ L2StackAccess => (L2LastOperand >= l2tr.pre.ep + 2 /\ L2LastOperand < l2tr.pre.esp)

\* the addresses the four machines share: the registers and the heap
CommonRange == 0 .. (REG_SIZE + HEAP_SIZE - 1)

\* the registers and the heap cells of store d up to the first cell past the
\* last one that was written
Extent(d) ==
  LET W == {x \in DOMAIN d : x \in CommonRange} \cup {REG_SIZE - 1}
  IN 0 .. ((CHOOSE x \in W : \A y \in W : y <= x) + 1)

\* the cells of store d that deref and unify can read: the registers, the heap
\* up to the last argument cell of a structure of the greatest arity, 127, whose
\* functor is the last cell written, and the cells that the payloads address
Readable(d) ==
  LET W == {x \in DOMAIN d : x \in CommonRange} \cup {REG_SIZE - 1}
      top == CHOOSE x \in W : \A y \in W : y <= x
  IN ((0 .. (top + 127)) \cup {ValOf(d[x]) : x \in W \cap DOMAIN d}) \cap CommonRange

\* the store d as the heap of the L0 and L1 machines, and as that of the JIT:
\* every cell that can be read holds the word it holds in d
L0Image(d) == [a \in Readable(d) |-> Rd(d, a)]
L2Image(d) == [a \in Readable(d) \cup DOMAIN d |-> Rd(d, a)]

\* every cell of the registers and the heap of d addresses a register or a
\* heap cell
CommonStore(d) ==
  \A a \in DOMAIN d : (a \in CommonRange /\ IsCell(d[a])) => ValOf(d[a]) \in CommonRange

\* the last call of l3unify was made on a store and on arguments that the
\* four machines can hold
SharedUnify ==
  /\ LastUnify /\ pc = "run"
  /\ LastA1 \in CommonRange /\ LastA2 \in CommonRange
  /\ tr.pre.up = TOP
  /\ CommonStore(tr.pre.data)

\* that call made by unify of L0, by l1unify and by l2jitunify
LastL0Unify ==
  l0unify(L0Image(tr.pre.data), tr.pre.derefTag, tr.pre.derefVal, LastA1, LastA2)
LastL1Unify ==
  l1unify(L0Image(tr.pre.data), tr.pre.derefTag, tr.pre.derefVal, LastA1, LastA2)
LastL2Unify == l2jitunify(L2Image(tr.pre.data), tr.pre.up, LastA1, LastA2)

\* the dereference routines agree on address a of store d, whose images are
\* h0 and h2, and the cell at the address returned holds the tag and payload
\* that are published
SameDeref(d, h0, h2, a) ==
  LET r3 == l3deref(d, a)
      r0 == l0deref(h0, a)
      r1 == l1deref(h0, a)
      r2 == l2jitderef(h2, a)
  IN /\ r0.st = r3.st /\ r1.st = r3.st /\ r2.st = r3.st
     /\ r3.st = "ok" =>
          /\ r0 = r3 /\ r1 = r3 /\ r2.addr = r3.addr
          /\ TagOf(Rd(d, r3.addr)) = r3.derefTag
          /\ ValOf(Rd(d, r3.addr)) = r3.derefVal

\* C37: the dereference and unify routines of L0, L1, L3 and the JIT are
\* equivalent: on every store and argument pair they end the same way,
\* return the same result, and bind the same cells to the same addresses in
\* the same order, leaving the same registers and heap; and deref returns
\* the same address, tag and value for every register and for every heap cell
\* up to the first one past the last written.  The PDL of
\* each variant holds 1000 entries (USTACK_SIZE, PDL_SIZE) and no variant tests
\* for its overflow; the unifications compared stay within it.
C37_VariantsEquivalent ==
  SharedUnify =>
    LET u3 == LastUnifyRun
        u0 == LastL0Unify
        u1 == LastL1Unify
        u2 == LastL2Unify
    IN /\ u0.st = u3.st /\ u1.st = u3.st /\ u2.st = u3.st
       /\ u3.st = "ok" =>
            /\ u0.fail = u3.fail /\ u1.fail = u3.fail /\ u2.fail = u3.fail
            /\ u0.binds = u3.binds /\ u1.binds = u3.binds /\ u2.binds = u3.binds
            /\ \A a \in DOMAIN u0.heap :
                 /\ u0.heap[a] = Rd(u3.data, a) /\ u1.heap[a] = Rd(u3.data, a)
                 /\ u2.heap[a] = Rd(u3.data, a)
       /\ LET h0 == L0Image(tr.pre.data)
              h2 == L2Image(tr.pre.data)
          IN \A a \in Extent(tr.pre.data) : SameDeref(tr.pre.data, h0, h2, a)

\* two terms with variables were unified: every variant pushed argument pairs
\* on its PDL, bound a cell and returned true
C37_Witness ==
  /\ SharedUnify /\ ~failed
  /\ LastUnifyRun.st = "ok" /\ ~LastUnifyRun.fail
  /\ Len(LastUnifyRun.met) >= 1 /\ Len(LastUnifyRun.binds) >= 1
  /\ LastL0Unify.st = "ok" /\ LastL0Unify.up = -1
  /\ LastL0Unify.binds = LastUnifyRun.binds
  /\ LastL2Unify.binds = LastUnifyRun.binds

====
